---- MODULE Spec2Model ----
(***************************************************************************)
(* A model of equal-l2/my-redis: the RESP connection handler (main.rs),    *)
(* the controller and its command tables (implementation/), the keyed      *)
(* maps, and the bounded connection-id store (executor/core/).             *)
(*                                                                         *)
(* Byte-strings are sequences of one-character strings, so that case       *)
(* folding and number parsing are computed byte by byte.                   *)
(***************************************************************************)
EXTENDS Integers, Sequences, FiniteSets, TLC

VARIABLES
    debug_assertions, \* whether the build checks debug_assert! (fixed at start)
    db,        \* Controller.db: the fleet, index -> Map
    cons,      \* Controller.cons: [data: id -> ConnectionState, next_id]
    pc,        \* per task: where handle_stream stands
    con_id,    \* per task: Handle.con_id (NoId before connect / after drop)
    results,   \* per task: replies of the current batch not yet written
    pbuf,      \* per task: the parser's buffered frames
    ex_log,    \* the requests executed by the last step, with their effects
    crashed,   \* a panic unwound through the executor, or a handler never
               \* returned on the single thread: nothing runs any more
    core,      \* executor/core ConnectionStore: [data, next_id] over u8 ids
    core_last, \* the last operation on the bounded store and its outcome
    core_hi,   \* the greatest id the bounded store handed out before it
    glob,      \* one call of the glob matcher: [pattern, input, out]
    parser,    \* parser.rs Parser: [mode, value_buffer, bytes_buffer]
    stream,    \* the bytes fed to that parser and what came of the calls
    idcall,    \* one call of Controller::client_id: [id, out]
    running,   \* the task the executor is polling (0: none)
    borrow,    \* the RefCell of the wrapper: [holder, op, failed]
    pending    \* per task: the values of the last read not yet executed

vars == <<debug_assertions, db, cons, pc, con_id, results, pbuf, ex_log, crashed,
          core, core_last, core_hi, glob, parser, stream, idcall, running,
          borrow, pending>>

-----------------------------------------------------------------------------
(* Bounds of the model.                                                    *)

\* number of databases of the fleet (main.rs starts it with 16)
DbCount == 2
\* connects the unbounded id counter is followed for
MaxIds == 3
\* width of the bounded connection id, in bits (u8 in the source)
IdBits == 2
\* width of the signed integers of INCR/DECR, in bits (i64 in the source)
I64Bits == 4

\* "no connection id" for a task that holds no Handle
NoId == 0 - 1

-----------------------------------------------------------------------------
(* Byte-strings (bstr.rs).                                                 *)

UpperChars == <<"A","B","C","D","E","F","G","H","I","J","K","L","M",
                "N","O","P","Q","R","S","T","U","V","W","X","Y","Z">>
LowerChars == <<"a","b","c","d","e","f","g","h","i","j","k","l","m",
                "n","o","p","q","r","s","t","u","v","w","x","y","z">>
Digits == <<"0","1","2","3","4","5","6","7","8","9">>

\* a byte that is not valid UTF-8 on its own
BadByte == "\\xff"

\* std::str::from_utf8(..).is_ok()
IsUtf8(bs) == \A i \in 1..Len(bs) : bs[i] # BadByte

AsciiLowerByte(c) ==
    IF \E i \in 1..26 : UpperChars[i] = c
    THEN LowerChars[CHOOSE i \in 1..26 : UpperChars[i] = c]
    ELSE c

\* str::to_ascii_lowercase
to_ascii_lowercase(bs) == [i \in 1..Len(bs) |-> AsciiLowerByte(bs[i])]

IsDigit(c) == \E i \in 1..10 : Digits[i] = c
DigitVal(c) == (CHOOSE i \in 1..10 : Digits[i] = c) - 1

RECURSIVE DigitsValue(_)
DigitsValue(ds) ==
    IF ds = <<>> THEN 0
    ELSE 10 * DigitsValue(SubSeq(ds, 1, Len(ds) - 1)) + DigitVal(ds[Len(ds)])

None == [some |-> FALSE]
Some(v) == [some |-> TRUE, v |-> v]

\* BStr::parse_into::<usize>: UTF-8, an optional '+', then one or more digits
parse_into_usize(bs) ==
    LET ds == IF bs # <<>> /\ bs[1] = "+" THEN Tail(bs) ELSE bs
    IN  IF ds # <<>> /\ \A i \in 1..Len(ds) : IsDigit(ds[i])
        THEN Some(DigitsValue(ds))
        ELSE None

\* decimal digits of a natural number, most significant first
RECURSIVE NatDigits(_)
NatDigits(n) ==
    IF n < 10 THEN <<Digits[n + 1]>>
    ELSE Append(NatDigits(n \div 10), Digits[(n % 10) + 1])

\* i64::to_string / usize::to_string
to_string(i) == IF i < 0 THEN <<"-">> \o NatDigits(0 - i) ELSE NatDigits(i)

RECURSIVE Pow2(_)
Pow2(n) == IF n = 0 THEN 1 ELSE 2 * Pow2(n - 1)

\* i64::MIN and i64::MAX at the width of the model
I64Min == 0 - Pow2(I64Bits - 1)
I64Max == Pow2(I64Bits - 1) - 1

\* BStr::parse_into::<i64>: UTF-8, an optional sign, one or more digits, and
\* a value that fits
parse_into_i64(bs) ==
    LET signed == bs # <<>> /\ bs[1] \in {"+", "-"}
        ds == IF signed THEN Tail(bs) ELSE bs
        mag == DigitsValue(ds)
        val == IF signed /\ bs[1] = "-" THEN 0 - mag ELSE mag
    IN  IF ds # <<>> /\ (\A i \in 1..Len(ds) : IsDigit(ds[i]))
           /\ val >= I64Min /\ val <= I64Max
        THEN Some(val)
        ELSE None

\* a faulty checked_add that refuses a sum equal to i64::MAX
checked_add_below_max(a, b) ==
    IF a + b >= I64Min /\ a + b < I64Max THEN Some(a + b) ELSE None

\* i64::checked_add
checked_add(a, b) ==
    IF a + b >= I64Min /\ a + b <= I64Max THEN Some(a + b) ELSE None

\* i64::checked_sub
checked_sub(a, b) ==
    IF a - b >= I64Min /\ a - b <= I64Max THEN Some(a - b) ELSE None

\* BStr::to_redis_error: "-" ++ self ++ "\r\n"
to_redis_error(msg) == <<"-", msg, "\r\n">>

-----------------------------------------------------------------------------
(* Reply values (interface types::OutputValue) and their encoding.         *)

Ok == [t |-> "Ok"]
Error(msg) == [t |-> "Error", v |-> msg]
Integer(i) == [t |-> "Integer", v |-> i]
BulkString(bs) == [t |-> "BulkString", v |-> bs]
SimpleString(bs) == [t |-> "SimpleString", v |-> bs]
NullBulkString == [t |-> "NullBulkString"]
NullArray == [t |-> "NullArray"]
Array(items) == [t |-> "Array", v |-> items]

\* OutputValue::to_bytes_vec, as the sequence of the pieces it concatenates
RECURSIVE to_bytes_vec(_)
RECURSIVE ItemsBytes(_)
ItemsBytes(items) ==
    IF items = <<>> THEN <<>>
    ELSE to_bytes_vec(Head(items)) \o ItemsBytes(Tail(items))

to_bytes_vec(o) ==
    CASE o.t = "SimpleString" -> <<"+", o.v, "\r\n">>
      [] o.t = "Error" -> to_redis_error(o.v)
      [] o.t = "Integer" -> <<":", to_string(o.v), "\r\n">>
      [] o.t = "BulkString" -> <<"$", to_string(Len(o.v)), "\r\n", o.v, "\r\n">>
      [] o.t = "Array" ->
            <<"*", to_string(Len(o.v)), "\r\n">> \o ItemsBytes(o.v)
      [] o.t = "NullBulkString" -> <<"$-1\r\n">>
      [] o.t = "NullArray" -> <<"*-1\r\n">>
      [] o.t = "Ok" -> <<"+OK\r\n">>

-----------------------------------------------------------------------------
(* Glob matcher (executor/core/glob.rs).  An outcome is "true", "false",   *)
(* "hang" (the call never returns) or "panic".                             *)

\* the bytes the patterns and inputs are made of, in ascending byte order
Ascii == <<"*", "-", "?", "[", "\\", "]", "^", "a", "b", "c", "d">>

Ord(c) == CHOOSE i \in 1..Len(Ascii) : Ascii[i] = c

\* Node
Chars(v) == [k |-> "Chars", v |-> v, els |-> <<>>]
Question == [k |-> "Question", v |-> <<>>, els |-> <<>>]
Star == [k |-> "Star", v |-> <<>>, els |-> <<>>]
Pat(els) == [k |-> "Pat", v |-> <<>>, els |-> els]
NoPat(els) == [k |-> "NoPat", v |-> <<>>, els |-> els]

\* PatElement
PatChar(c) == [lo |-> c, hi |-> c]
PatRange(lo, hi) == [lo |-> lo, hi |-> hi]

\* buffer.drain(..).map(PatElement::Char)
CharElems(buffer) == [i \in 1..Len(buffer) |-> PatChar(buffer[i])]

\* the loop of compile_bracket over inner[i..]
RECURSIVE BracketLoop(_, _, _, _, _)
BracketLoop(inner, i, elems, buffer, inverted) ==
    IF i > Len(inner)
    THEN Some(IF inverted THEN NoPat(elems \o CharElems(buffer))
              ELSE Pat(elems \o CharElems(buffer)))
    ELSE IF inner[i] = "-"
    THEN IF buffer # <<>>
         THEN LET pat_start == buffer[Len(buffer)]
                  flushed == elems \o CharElems(SubSeq(buffer, 1, Len(buffer) - 1))
              IN  IF i + 1 <= Len(inner)
                  THEN LET pat_end == inner[i + 1]
                           range == IF Ord(pat_start) > Ord(pat_end)
                                    THEN PatRange(pat_end, pat_start)
                                    ELSE PatRange(pat_start, pat_end)
                       IN  BracketLoop(inner, i + 2, Append(flushed, range),
                                       <<>>, inverted)
                  ELSE None
         ELSE BracketLoop(inner, i + 1, elems, <<"-">>, inverted)
    ELSE BracketLoop(inner, i + 1, elems, Append(buffer, inner[i]), inverted)

compile_bracket(inner) ==
    IF inner # <<>> /\ inner[1] = "^"
    THEN BracketLoop(inner, 2, <<>>, <<>>, TRUE)
    ELSE BracketLoop(inner, 1, <<>>, <<>>, FALSE)

\* the in-bracket loop of compile_pattern: the chars read and where it stopped
RECURSIVE ReadBracket(_, _, _)
ReadBracket(p, i, buffer) ==
    IF i > Len(p) THEN [i |-> i, buffer |-> buffer]
    ELSE IF p[i] = "\\"
    THEN IF i + 1 > Len(p) THEN [i |-> i + 2, buffer |-> buffer]
         ELSE IF p[i + 1] = "["
         THEN ReadBracket(p, i + 2, Append(buffer, "["))
         ELSE ReadBracket(p, i + 2, buffer \o <<"\\", p[i + 1]>>)
    ELSE IF p[i] = "-"
    THEN IF i + 1 <= Len(p)
         THEN ReadBracket(p, i + 2, buffer \o <<"-", p[i + 1]>>)
         ELSE ReadBracket(p, i + 1, Append(buffer, "-"))
    ELSE IF p[i] = "]" THEN [i |-> i + 1, buffer |-> buffer]
    ELSE ReadBracket(p, i + 1, Append(buffer, p[i]))

Compiled(nodes) == [r |-> "nodes", nodes |-> nodes]
CompileNone == [r |-> "none", nodes |-> <<>>]
CompileHang == [r |-> "hang", nodes |-> <<>>]

\* optimise_nodes: new_nodes is never written back, so a pass that changed
\* something is repeated for ever
optimise_nodes(nodes) ==
    IF Len(nodes) <= 1 THEN Compiled(nodes)
    ELSE LET changed ==
                 \E i \in 1..(Len(nodes) - 1) :
                     \/ nodes[i].k = "Star" /\ nodes[i + 1].k = "Star"
                     \/ nodes[i].k = "Chars" /\ nodes[i + 1].k = "Chars"
         IN  IF ~changed THEN Compiled(nodes) ELSE CompileHang

\* a faulty escape that lets a backslash escape every byte
EscapePush_any(buffer, ch) == Append(buffer, ch)

SPECIALS == {"*", "?", "["}

\* Some(ch) if SPECIALS.contains(ch) => push(ch), Some(ch) => extend([b'\\', ch])
EscapePush(buffer, ch) ==
    IF ch \in SPECIALS THEN Append(buffer, ch) ELSE buffer \o <<"\\", ch>>

\* if !buffer.is_empty() { nodes.push(Node::Chars(take(buffer))) }
PushChars(nodes, buffer) ==
    IF buffer # <<>> THEN Append(nodes, Chars(buffer)) ELSE nodes

\* the loop of compile_pattern over pattern[i..]
RECURSIVE CompileLoop(_, _, _, _)
CompileLoop(p, i, nodes, buffer) ==
    IF i > Len(p) THEN optimise_nodes(PushChars(nodes, buffer))
    ELSE IF p[i] = "*"
    THEN CompileLoop(p, i + 1, Append(PushChars(nodes, buffer), Star), <<>>)
    ELSE IF p[i] = "?"
    THEN CompileLoop(p, i + 1, Append(PushChars(nodes, buffer), Question), <<>>)
    ELSE IF p[i] = "["
    THEN LET rb == ReadBracket(p, i + 1, <<>>)
             pushed == PushChars(nodes, buffer)
         IN  IF rb.buffer = <<>> THEN CompileNone
             ELSE IF rb.buffer = <<"^">>
             THEN CompileLoop(p, rb.i, Append(pushed, Question), <<>>)
             ELSE LET b == compile_bracket(rb.buffer)
                  IN  IF b.some
                      THEN CompileLoop(p, rb.i, Append(pushed, b.v), <<>>)
                      ELSE CompileNone
    ELSE IF p[i] = "\\"
    THEN IF i + 1 > Len(p)
         THEN CompileLoop(p, i + 1, nodes, Append(buffer, "\\"))
         ELSE CompileLoop(p, i + 2, nodes, EscapePush(buffer, p[i + 1]))
    ELSE CompileLoop(p, i + 1, nodes, Append(buffer, p[i]))

compile_pattern(pattern) ==
    IF pattern = <<>> THEN CompileNone
    ELSE CompileLoop(pattern, 1, <<>>, <<>>)

\* Finder
Finder(k, n, v, nodes) == [k |-> k, n |-> n, v |-> v, nodes |-> nodes]

\* Finder::new; "Hang" stands for a call that never returns
Finder_new(pattern) ==
    LET c == compile_pattern(pattern)
        nodes == c.nodes
        qs == Cardinality({i \in 1..Len(nodes) : nodes[i].k = "Question"})
    IN  IF c.r = "hang" THEN Finder("Hang", 0, <<>>, <<>>)
        ELSE IF c.r = "none" THEN Finder("NoMatch", 0, <<>>, <<>>)
        ELSE IF Len(nodes) = 1 /\ nodes[1].k = "Star"
        THEN Finder("AllMatch", 0, <<>>, <<>>)
        ELSE IF Len(nodes) = 1 /\ nodes[1].k = "Chars"
        THEN Finder("SimpleMatch", 0, nodes[1].v, <<>>)
        ELSE IF Len(nodes) = 3 /\ nodes[1].k = "Star" /\ nodes[2].k = "Chars"
                /\ nodes[3].k = "Star"
        THEN Finder("FindNeedle", 0, nodes[2].v, <<>>)
        ELSE IF (\A i \in 1..Len(nodes) : nodes[i].k \in {"Question", "Star"})
                /\ qs # 0
        THEN Finder("AllMatchWithLen", qs, <<>>, <<>>)
        ELSE Finder("RequiresMatch", 0, <<>>, nodes)

Outcome(b) == IF b THEN "true" ELSE "false"

\* input.get(from..to) with 0-based bounds: None when from > to or to > len
SliceGet(input, from, to) ==
    IF from > to \/ to > Len(input) THEN None
    ELSE Some(SubSeq(input, from + 1, to))

\* for el in pat { ... ok = true ... }
ElemsContain(els, c) ==
    \E i \in 1..Len(els) : Ord(els[i].lo) <= Ord(c) /\ Ord(c) <= Ord(els[i].hi)

\* Finder::run_node: n is the current node (1-based), pos the 0-based position
RECURSIVE run_node_at(_, _, _, _, _)
RECURSIVE run_node_skipping(_, _, _, _, _)
run_node_skipping(input, nodes, n, pos, skip) ==
    LET node == nodes[n]
    IN  IF pos >= Len(input) THEN "false"
        ELSE IF node.k = "Chars"
        THEN LET slice == SliceGet(input, pos, Len(node.v))
             IN  IF ~slice.some THEN "false"
                 ELSE IF slice.v = node.v
                 THEN run_node_at(input, nodes, n + 1, pos + Len(node.v), FALSE)
                 ELSE IF ~skip THEN "false"
                 ELSE run_node_skipping(input, nodes, n, pos + 1, skip)
        ELSE IF node.k = "Question"
        THEN run_node_at(input, nodes, n + 1, pos + 1, FALSE)
        ELSE \* Pat and NoPat run the same code
             IF ElemsContain(node.els, input[pos + 1])
             THEN run_node_at(input, nodes, n + 1, pos + 1, FALSE)
             ELSE IF skip THEN "false"
             ELSE "hang"

run_node_at(input, nodes, n, pos, skip) ==
    IF n > Len(nodes) THEN Outcome(skip \/ pos = Len(input))
    ELSE IF nodes[n].k = "Star"
    THEN run_node_at(input, nodes, n + 1, pos, TRUE)
    ELSE run_node_skipping(input, nodes, n, pos, skip)

run_node(input, nodes) == run_node_at(input, nodes, 1, 0, FALSE)

\* memmem::find(input, f).is_some()
memmem_find(input, f) ==
    \E i \in 0..(Len(input) - Len(f)) : SubSeq(input, i + 1, i + Len(f)) = f

\* Finder::do_match; dbg: the build has debug assertions
do_match(finder, input, dbg) ==
    IF finder.k = "Hang" THEN "hang"
    ELSE IF dbg /\ input = <<>> THEN "panic"
    ELSE CASE finder.k = "NoMatch" -> "false"
           [] finder.k = "AllMatch" -> "true"
           [] finder.k = "AllMatchWithLen" -> Outcome(Len(input) = finder.n)
           [] finder.k = "SimpleMatch" -> Outcome(input = finder.v)
           [] finder.k = "FindNeedle" -> Outcome(memmem_find(input, finder.v))
           [] finder.k = "RequiresMatch" -> run_node(input, finder.nodes)

-----------------------------------------------------------------------------
(* Map: one database (implementation/database/map.rs).                     *)

String(s) == [type |-> "String", s |-> s]

EmptyMap == [k \in {} |-> String(<<>>)]

contains_key(m, k) == k \in DOMAIN m

insert(m, k, v) == [x \in DOMAIN m \cup {k} |-> IF x = k THEN v ELSE m[x]]

remove(m, k) == [x \in DOMAIN m \ {k} |-> m[x]]

\* the keys of a key/value argument list: positions 1, 3, 5, ...
PairKeys(kv) == {kv[i] : i \in {j \in 1..Len(kv) : j % 2 = 1}}

\* the loop of mset/msetnx: insert the pairs from the left
RECURSIVE InsertPairs(_, _)
InsertPairs(m, kv) ==
    IF Len(kv) < 2 THEN m
    ELSE InsertPairs(insert(m, kv[1], String(kv[2])), SubSeq(kv, 3, Len(kv)))

Map_flushdb(m) == [map |-> EmptyMap, out |-> Ok]

Map_get(m, k) ==
    [map |-> m,
     out |-> IF ~contains_key(m, k) THEN NullBulkString
             ELSE IF m[k].type = "String" THEN BulkString(m[k].s)
             ELSE Error(<<"ERR wrong target type for 'get'">>)]

\* a faulty set that keeps the value of a key that already exists
Map_set_keep(m, k, v) ==
    [map |-> IF contains_key(m, k) THEN m ELSE insert(m, k, String(v)),
     out |-> Ok]

Map_set(m, k, v) == [map |-> insert(m, k, String(v)), out |-> Ok]

\* Map::mget
Map_mget(m, key) ==
    [map |-> m,
     out |-> Array([i \in 1..Len(key) |->
                      IF contains_key(m, key[i])
                         /\ m[key[i]].type = "String"
                      THEN BulkString(m[key[i]].s)
                      ELSE NullBulkString])]

Map_mset(m, kv) == [map |-> InsertPairs(m, kv), out |-> Ok]

Map_msetnx(m, kv) ==
    LET any_key_exists == \E k \in PairKeys(kv) : contains_key(m, k)
    IN  IF ~any_key_exists
        THEN [map |-> m, out |-> Integer(0)]
        ELSE [map |-> InsertPairs(m, kv), out |-> Integer(1)]

\* filter_map(remove).count(): a repeated key is removed, and counted, once
RECURSIVE DelLoop(_, _, _)
DelLoop(m, keys, n) ==
    IF keys = <<>> THEN [map |-> m, out |-> Integer(n)]
    ELSE IF contains_key(m, Head(keys))
         THEN DelLoop(remove(m, Head(keys)), Tail(keys), n + 1)
         ELSE DelLoop(m, Tail(keys), n)

\* a faulty del that counts its arguments instead of the removed entries
Map_del_count_args(m, keys) ==
    [map |-> DelLoop(m, keys, 0).map, out |-> Integer(Len(keys))]

Map_del(m, keys) == DelLoop(m, keys, 0)

Map_len(m) == Cardinality(DOMAIN m)

\* Map::append
Map_append(m, k, v) ==
    IF contains_key(m, k)
    THEN IF m[k].type = "String"
         THEN [map |-> insert(m, k, String(m[k].s \o v)),
               out |-> Integer(Len(m[k].s \o v))]
         ELSE [map |-> m,
               out |-> Error(<<"ERR wrong target type for 'append'">>)]
    ELSE [map |-> insert(m, k, String(v)), out |-> Integer(Len(v))]

\* Map::strlen
\* a faulty strlen that counts the entry instead of its bytes
Map_strlen_entry(m, k) ==
    [map |-> m, out |-> Integer(IF contains_key(m, k) THEN 1 ELSE 0)]

Map_strlen(m, k) ==
    [map |-> m,
     out |-> IF contains_key(m, k)
             THEN IF m[k].type = "String" THEN Integer(Len(m[k].s))
                  ELSE Error(<<"ERR wrong target type for 'strlen'">>)
             ELSE Integer(0)]

\* Map::incr_decr_check_key_value: an absent key is created holding "0"
incr_decr_check_key_value(m, k) ==
    IF contains_key(m, k)
    THEN IF m[k].type = "String" /\ parse_into_i64(m[k].s).some
         THEN [map |-> m, err |-> None]
         ELSE [map |-> m,
               err |-> Some(Error(<<"ERR value is not an integer">>))]
    ELSE [map |-> insert(m, k, String(<<"0">>)), err |-> None]

\* Map::incrby
Map_incrby(m, k, n) ==
    LET c == incr_decr_check_key_value(m, k)
    IN  IF c.err.some THEN [map |-> c.map, out |-> c.err.v]
        ELSE LET old_value == parse_into_i64(c.map[k].s).v
                 new_value == checked_add(old_value, n)
             IN  IF new_value.some
                 THEN [map |-> insert(c.map, k, String(to_string(new_value.v))),
                       out |-> Integer(new_value.v)]
                 ELSE [map |-> c.map,
                       out |-> Error(<<"ERR integer overflow">>)]

\* Map::decrby
Map_decrby(m, k, n) ==
    LET c == incr_decr_check_key_value(m, k)
    IN  IF c.err.some THEN [map |-> c.map, out |-> c.err.v]
        ELSE LET old_value == parse_into_i64(c.map[k].s).v
                 new_value == checked_sub(old_value, n)
             IN  IF new_value.some
                 THEN [map |-> insert(c.map, k, String(to_string(new_value.v))),
                       out |-> Integer(new_value.v)]
                 ELSE [map |-> c.map,
                       out |-> Error(<<"ERR integer overflow">>)]

\* MapStringCommands::incr
Map_incr(m, k) == Map_incrby(m, k, 1)

\* MapStringCommands::decr
Map_decr(m, k) == Map_decrby(m, k, 1)

\* Map::exists: a repeated key is counted each time
Map_exists(m, keys) ==
    [map |-> m,
     out |-> Integer(Cardinality({i \in 1..Len(keys) : contains_key(m, keys[i])}))]

\* self.data.keys(): the keys in the order the HashMap yields them (some order)
RECURSIVE KeysInOrder(_)
KeysInOrder(S) ==
    IF S = {} THEN <<>>
    ELSE LET k == CHOOSE x \in S : TRUE
         IN  <<k>> \o KeysInOrder(S \ {k})

\* handler outcomes that are not replies: the call panicked / never returned
PanicOut == [t |-> "Panic"]
HangOut == [t |-> "Hang"]

\* .filter(|k| finder.it_matches(k)) ... .collect()
RECURSIVE KeysFilter(_, _, _)
KeysFilter(finder, keys, acc) ==
    IF keys = <<>> THEN Array(acc)
    ELSE LET o == do_match(finder, Head(keys), debug_assertions)
         IN  IF o = "panic" THEN PanicOut
             ELSE IF o = "hang" THEN HangOut
             ELSE KeysFilter(finder, Tail(keys),
                             IF o = "true"
                             THEN Append(acc, BulkString(Head(keys)))
                             ELSE acc)

\* Map::keys
Map_keys(m, pattern) ==
    LET finder == Finder_new(pattern)
    IN  [map |-> m,
         out |-> IF finder.k = "Hang" THEN HangOut
                 ELSE KeysFilter(finder, KeysInOrder(DOMAIN m), <<>>)]

-----------------------------------------------------------------------------
(* Database: the fleet (implementation/database.rs).                       *)

Database_new(db_count) == [i \in 0..(db_count - 1) |-> EmptyMap]

Database_len(d) == Cardinality(DOMAIN d)

\* a faulty swap that copies j over i and leaves j as it was
Database_swap_copy(d, i, j) ==
    [x \in DOMAIN d |-> IF x = i THEN d[j] ELSE d[x]]

Database_swap(d, i, j) ==
    [x \in DOMAIN d |-> IF x = i THEN d[j] ELSE IF x = j THEN d[i] ELSE d[x]]

\* IDatabaseWithInner::flushall: flushdb on every Map
Database_flushall(d) == [x \in DOMAIN d |-> Map_flushdb(d[x]).map]

-----------------------------------------------------------------------------
(* ConnectionStore (implementation/connection.rs): BigUint ids.            *)

ConnectionState_new(addr) == [db |-> 0, addr |-> addr]

ConnectionStore_default == [data |-> [i \in {} |-> ConnectionState_new(0)],
                            next_id |-> 0]

ConnectionStore_connect(cs, addr) ==
    [cs |-> [data |-> insert(cs.data, cs.next_id, ConnectionState_new(addr)),
             next_id |-> cs.next_id + 1],
     id |-> cs.next_id]

ConnectionStore_disconnect(cs, id) == [cs EXCEPT !.data = remove(cs.data, id)]

ConnectionStore_has(cs, id) == id \in DOMAIN cs.data

\* a faulty set_db that writes the index into every ConnectionState
ConnectionStore_set_db_all(cs, id, db_index) ==
    [cs EXCEPT !.data = [x \in DOMAIN cs.data |->
        [cs.data[x] EXCEPT !.db = db_index]]]

\* get_state_mut(id).db = db_index; the caller has checked has(id)
ConnectionStore_set_db(cs, id, db_index) ==
    [cs EXCEPT !.data = [x \in DOMAIN cs.data |->
        IF x = id THEN [cs.data[x] EXCEPT !.db = db_index] ELSE cs.data[x]]]

-----------------------------------------------------------------------------
(* Command tables (implementation/command.rs).                             *)

n_flushdb == <<"f","l","u","s","h","d","b">>
n_ping == <<"p","i","n","g">>
n_echo == <<"e","c","h","o">>
n_dbsize == <<"d","b","s","i","z","e">>
n_del == <<"d","e","l">>
n_get == <<"g","e","t">>
n_set == <<"s","e","t">>
n_mset == <<"m","s","e","t">>
n_msetnx == <<"m","s","e","t","n","x">>
n_append == <<"a","p","p","e","n","d">>
n_strlen == <<"s","t","r","l","e","n">>
n_incr == <<"i","n","c","r">>
n_decr == <<"d","e","c","r">>
n_incrby == <<"i","n","c","r","b","y">>
n_decrby == <<"d","e","c","r","b","y">>
n_exists == <<"e","x","i","s","t","s">>
n_keys == <<"k","e","y","s">>
n_select == <<"s","e","l","e","c","t">>
n_flushall == <<"f","l","u","s","h","a","l","l">>
n_swapdb == <<"s","w","a","p","d","b">>
n_mget == <<"m","g","e","t">>
n_incrbyfloat == <<"i","n","c","r","b","y","f","l","o","a","t">>
n_acl == <<"a","c","l">>
n_client == <<"c","l","i","e","n","t">>
n_command == <<"c","o","m","m","a","n","d">>
n_function == <<"f","u","n","c","t","i","o","n">>
n_config == <<"c","o","n","f","i","g">>
n_cat == <<"c","a","t">>
n_id == <<"i","d">>
n_list == <<"l","i","s","t">>
n_count == <<"c","o","u","n","t">>
n_flush == <<"f","l","u","s","h">>
n_filterby == <<"f","i","l","t","e","r","b","y">>
n_module == <<"m","o","d","u","l","e">>
n_aclcat == <<"a","c","l","c","a","t">>
n_pattern == <<"p","a","t","t","e","r","n">>

Arity(min, max) == [arity_min |-> min, arity_max |-> max]

\* name -> (arity_min, arity_max) of initialise_simple_commands
SimpleArity(name) ==
    CASE name = n_flushdb -> Arity(0, Some(0))
      [] name = n_ping -> Arity(0, Some(1))
      [] name = n_echo -> Arity(1, Some(1))
      [] name = n_dbsize -> Arity(0, Some(0))
      [] name = n_del -> Arity(1, None)
      [] name = n_get -> Arity(1, Some(1))
      [] name = n_set -> Arity(2, Some(5))
      [] name = n_mset -> Arity(2, None)
      [] name = n_msetnx -> Arity(2, None)
      [] name = n_append -> Arity(2, Some(2))
      [] name = n_strlen -> Arity(1, Some(1))
      [] name = n_incr -> Arity(1, Some(1))
      [] name = n_decr -> Arity(1, Some(1))
      [] name = n_incrby -> Arity(2, Some(2))
      [] name = n_decrby -> Arity(2, Some(2))
      [] name = n_exists -> Arity(1, None)
      [] name = n_keys -> Arity(1, Some(1))
      [] name = n_mget -> Arity(1, None)
      [] name = n_incrbyfloat -> Arity(2, Some(2))

simple_commands == {n_flushdb, n_ping, n_echo, n_dbsize, n_del, n_get, n_set,
                    n_mset, n_msetnx, n_append, n_strlen, n_incr, n_decr,
                    n_incrby, n_decrby, n_exists, n_keys, n_mget,
                    n_incrbyfloat}

controller_commands == {n_select, n_flushall, n_swapdb}

ControllerArity(name) ==
    CASE name = n_select -> Arity(1, Some(1))
      [] name = n_flushall -> Arity(0, Some(0))
      [] name = n_swapdb -> Arity(2, Some(2))

is_arity_correct(a, arity) ==
    IF arity < a.arity_min THEN FALSE
    ELSE IF a.arity_max.some THEN arity <= a.arity_max.v
    ELSE TRUE

WrongArity(name) == Error(<<"ERR wrong number of arguments for '", name, "'">>)

\* the handler closures of the simple commands, on the selected Map (the
\* floating-point arithmetic of incrbyfloat is outside the model: only its
\* descriptor is kept)
SimpleHandler(name, m, input) ==
    CASE name = n_flushdb -> Map_flushdb(m)
      [] name = n_ping ->
            [map |-> m,
             out |-> IF input # <<>> THEN BulkString(input[1])
                     ELSE SimpleString(<<"P","O","N","G">>)]
      [] name = n_echo -> [map |-> m, out |-> BulkString(input[1])]
      [] name = n_dbsize -> [map |-> m, out |-> Integer(Map_len(m))]
      [] name = n_del -> Map_del(m, input)
      [] name = n_get -> Map_get(m, input[1])
      [] name = n_set -> Map_set(m, input[1], input[2])
      [] name = n_mset ->
            IF Len(input) % 2 # 0
            THEN [map |-> m,
                  out |-> Error(<<"ERR wrong number of arguments for 'mget'">>)]
            ELSE Map_mset(m, input)
      [] name = n_msetnx ->
            IF Len(input) % 2 # 0
            THEN [map |-> m,
                  out |-> Error(<<"ERR wrong number of arguments for 'mget'">>)]
            ELSE Map_msetnx(m, input)
      [] name = n_append -> Map_append(m, input[1], input[2])
      [] name = n_strlen -> Map_strlen(m, input[1])
      [] name = n_incr -> Map_incr(m, input[1])
      [] name = n_decr -> Map_decr(m, input[1])
      [] name = n_incrby ->
            LET value == parse_into_i64(input[2])
            IN  IF ~value.some
                THEN [map |-> m,
                      out |-> Error(<<"ERR value is not an integer">>)]
                ELSE Map_incrby(m, input[1], value.v)
      [] name = n_decrby ->
            LET value == parse_into_i64(input[2])
            IN  IF ~value.some
                THEN [map |-> m,
                      out |-> Error(<<"ERR value is not an integer">>)]
                ELSE Map_decrby(m, input[1], value.v)
      [] name = n_exists -> Map_exists(m, input)
      [] name = n_keys -> Map_keys(m, input[1])
      [] name = n_mget -> Map_mget(m, input)

\* SimpleCommand::execute
SimpleCommand_execute(name, m, input) ==
    IF ~is_arity_correct(SimpleArity(name), Len(input))
    THEN [map |-> m, out |-> WrongArity(name)]
    ELSE SimpleHandler(name, m, input)

IntOk(i) == [ok |-> TRUE, int |-> i]
IntErr(o) == [ok |-> FALSE, err |-> o]

\* the handler closures of the controller commands: Result<Interrupt, OutputValue>
ControllerHandler(name, input) ==
    CASE name = n_select ->
            LET p == parse_into_usize(input[1])
            IN  IF p.some THEN IntOk([k |-> "Select", a |-> p.v])
                ELSE IntErr(Error(<<"ERR invalid argument for 'select'">>))
      [] name = n_flushall -> IntOk([k |-> "FlushAll"])
      [] name = n_swapdb ->
            LET p1 == parse_into_usize(input[1])
                p2 == parse_into_usize(input[2])
            IN  IF ~p1.some THEN IntErr(Error(<<"ERR invalid first DB index">>))
                ELSE IF ~p2.some
                     THEN IntErr(Error(<<"ERR invalid second DB index">>))
                ELSE IntOk([k |-> "SwapDb", a |-> p1.v, b |-> p2.v])

\* ControllerCommandDefinition::execute
ControllerCommand_execute(name, input) ==
    IF ~is_arity_correct(ControllerArity(name), Len(input))
    THEN IntErr(WrongArity(name))
    ELSE ControllerHandler(name, input)

-----------------------------------------------------------------------------
(* Container commands (initialise_container_commands): a command with      *)
(* subcommands and, for `command` only, a handler of its own.              *)

container_commands == {n_acl, n_client, n_command, n_function, n_config}

\* ContainerCommand.handler.is_some()
has_handler(name) == name = n_command

\* the keys of ContainerCommand.subcommands
subcommands(name) ==
    CASE name = n_acl -> {n_cat}
      [] name = n_client -> {n_id, n_list}
      [] name = n_command -> {n_count, n_list}
      [] name = n_function -> {n_flush}
      [] name = n_config -> {n_get}

SubArity(name, sub) ==
    CASE name = n_acl -> Arity(0, Some(1))
      [] name = n_client -> Arity(0, Some(0))
      [] name = n_command /\ sub = n_count -> Arity(0, Some(0))
      [] name = n_command /\ sub = n_list -> Arity(0, Some(3))
      [] name = n_function -> Arity(0, Some(1))
      [] name = n_config -> Arity(1, None)

\* AclCategory, in the order of its declaration
AclCategories ==
    <<<<"a","d","m","i","n">>,
      <<"c","o","n","n","e","c","t","i","o","n">>,
      <<"d","a","n","g","e","r","o","u","s">>,
      <<"f","a","s","t">>,
      <<"k","e","y","s","p","a","c","e">>,
      <<"r","e","a","d">>,
      <<"s","l","o","w">>,
      <<"s","t","r","i","n","g">>,
      <<"w","r","i","t","e">>,
      <<"s","c","r","i","p","t","i","n","g">>>>

\* AclCategory::from_str behind BStr::parse_into
parse_into_category(bs) ==
    IF IsUtf8(bs)
       /\ \E i \in 1..Len(AclCategories) :
              AclCategories[i] = to_ascii_lowercase(bs)
    THEN Some(to_ascii_lowercase(bs))
    ELSE None

\* BStr::to_lower_string
to_lower_string(bs) == IF IsUtf8(bs) THEN Some(to_ascii_lowercase(bs)) ELSE None

\* the handler closures of the subcommands
SubHandler(name, sub, input) ==
    CASE name = n_acl ->
            IF Len(input) = 0 THEN IntOk([k |-> "AclCat", a |-> None])
            ELSE LET category == parse_into_category(input[1])
                 IN  IF ~category.some
                     THEN IntErr(Error(
                              <<"ERR unknown ACL category for 'acl cat'">>))
                     ELSE IntOk([k |-> "AclCat", a |-> category])
      [] name = n_client /\ sub = n_id -> IntOk([k |-> "ClientId"])
      [] name = n_client /\ sub = n_list -> IntOk([k |-> "ClientList"])
      [] name = n_command /\ sub = n_count -> IntOk([k |-> "CommandCount"])
      [] name = n_command /\ sub = n_list ->
            IF Len(input) = 0
            THEN IntOk([k |-> "CommandList", f |-> "All", a |-> <<>>])
            ELSE IF Len(input) = 3
            THEN LET filterby == to_lower_string(input[1])
                     filter_category == to_lower_string(input[2])
                     category == parse_into_category(input[3])
                 IN  IF ~(filterby.some /\ filterby.v = n_filterby)
                     THEN IntErr(Error(
                              <<"ERR invalid argument for 'command list'">>))
                     ELSE IF ~filter_category.some
                     THEN IntErr(Error(
                              <<"ERR invalid argument for 'command list'">>))
                     ELSE IF filter_category.v = n_module
                     THEN IntErr(Error(
                              <<"ERR filterby module is not implemented yet">>))
                     ELSE IF filter_category.v = n_aclcat
                     THEN IF ~category.some
                          THEN IntErr(Error(
                              <<"ERR unknown ACL category for 'command list'">>))
                          ELSE IntOk([k |-> "CommandList", f |-> "Category",
                                      a |-> category.v])
                     ELSE IF filter_category.v = n_pattern
                     THEN IntOk([k |-> "CommandList", f |-> "Pattern",
                                 a |-> input[3]])
                     ELSE IntErr(Error(
                              <<"ERR unknown filter for 'command list'">>))
            ELSE IntErr(Error(
                     <<"ERR wrong number of arguments for 'command list'">>))
      [] name = n_function -> IntErr(Ok)
      [] name = n_config -> IntErr(NullArray)

\* format!("{} {}", name, sub)
SubName(name, sub) == name \o <<" ">> \o sub

\* ControllerCommandDefinition::execute of a subcommand
SubCommand_execute(name, sub, input) ==
    IF ~is_arity_correct(SubArity(name, sub), Len(input))
    THEN IntErr(WrongArity(SubName(name, sub)))
    ELSE SubHandler(name, sub, input)

UnknownSubcommand(name) == Error(<<"ERR unknown subcommand for '", name, "'">>)

\* BStr::to_str: the bytes themselves when they are UTF-8
to_str(sub_bytes) == IF IsUtf8(sub_bytes) THEN Some(sub_bytes) ELSE None

\* ContainerCommand::is_arity_correct: without a handler, zero arguments
\* are disallowed
Container_is_arity_correct(name, arity) ==
    IF ~has_handler(name) THEN arity >= 1 ELSE TRUE

\* ContainerCommand::execute
ContainerCommand_execute(name, input) ==
    IF ~Container_is_arity_correct(name, Len(input))
    THEN IntErr(WrongArity(name))
    ELSE IF Len(input) = 0
    THEN IntErr(Error(<<"ERR 'command' is not implemented yet">>))
    ELSE LET rest == Tail(input)
             sub == to_str(input[1])
         IN  IF ~sub.some THEN IntErr(UnknownSubcommand(name))
             ELSE IF sub.v \notin subcommands(name)
             THEN IntErr(UnknownSubcommand(name))
             ELSE SubCommand_execute(name, sub.v, rest)

-----------------------------------------------------------------------------
(* Controller (implementation/mod.rs).  A controller state is the record   *)
(* [db, cons]; every operation returns the state it leaves.                *)

\* a faulty bound check that lets the fleet size itself through
validate_db_index_value_inclusive(d, db_index_value) ==
    IF db_index_value <= Database_len(d) THEN Some(db_index_value) ELSE None

validate_db_index_value(d, db_index_value) ==
    IF db_index_value < Database_len(d) THEN Some(db_index_value) ELSE None

select(st, id, arg) ==
    LET v == validate_db_index_value(st.db, arg)
    IN  IF v.some
        THEN [db |-> st.db,
              cons |-> ConnectionStore_set_db(st.cons, id, v.v),
              out |-> Ok]
        ELSE [db |-> st.db, cons |-> st.cons,
              out |-> Error(<<"ERR DB index is out of range">>)]

\* a faulty swap_db that reports the second index before the first
swap_db_second_first(st, db1, db2) ==
    LET o1 == validate_db_index_value(st.db, db1)
        o2 == validate_db_index_value(st.db, db2)
    IN  IF o1.some /\ o2.some
        THEN [db |-> Database_swap(st.db, o1.v, o2.v), cons |-> st.cons,
              out |-> Ok]
        ELSE IF ~o2.some
        THEN [db |-> st.db, cons |-> st.cons,
              out |-> Error(<<"ERR second DB index is out of range">>)]
        ELSE [db |-> st.db, cons |-> st.cons,
              out |-> Error(<<"ERR first DB index is out of range">>)]

swap_db(st, db1, db2) ==
    LET o1 == validate_db_index_value(st.db, db1)
        o2 == validate_db_index_value(st.db, db2)
    IN  IF o1.some /\ o2.some
        THEN [db |-> Database_swap(st.db, o1.v, o2.v), cons |-> st.cons,
              out |-> Ok]
        ELSE IF ~o1.some
        THEN [db |-> st.db, cons |-> st.cons,
              out |-> Error(<<"ERR first DB index is out of range">>)]
        ELSE [db |-> st.db, cons |-> st.cons,
              out |-> Error(<<"ERR second DB index is out of range">>)]

flushall(st) == [db |-> Database_flushall(st.db), cons |-> st.cons, out |-> Ok]

\* Controller::client_id: the least significant u64 digit of the id (none
\* for zero), capped at i64::MAX; a u64 digit has I64Bits bits in the model
client_id(id) ==
    LET id_least_digit == IF id = 0 THEN None
                          ELSE Some(id % Pow2(I64Bits))
    IN  Integer(IF ~id_least_digit.some THEN 0
                ELSE IF id_least_digit.v <= I64Max THEN id_least_digit.v
                ELSE I64Max)

\* Display of a SocketAddr: the peer numbered a is the host a at port a
SocketAddr_fmt(addr) == to_string(addr) \o <<":">> \o to_string(addr)

\* format!("id={} addr={}", id, state.addr) and the pushed line feed
ClientLine(id, state) ==
    <<"i","d","=">> \o to_string(id) \o <<" ","a","d","d","r","=">>
        \o SocketAddr_fmt(state.addr) \o <<"\n">>

\* a faulty listing that shows the connection of the smallest id only
ConnectionStore_list_first(cs) ==
    BulkString(IF DOMAIN cs.data = {} THEN <<>>
               ELSE LET id == CHOOSE i \in DOMAIN cs.data :
                                  \A j \in DOMAIN cs.data : i <= j
                    IN  ClientLine(id, cs.data[id]))

RECURSIVE ListLines(_, _)
ListLines(data, ids) ==
    IF ids = {} THEN <<>>
    ELSE LET id == CHOOSE i \in ids : \A j \in ids : i <= j
         IN  ClientLine(id, data[id]) \o ListLines(data, ids \ {id})

\* ConnectionStore::list: the entries of the BTreeMap in ascending key order
ConnectionStore_list(cs) == BulkString(ListLines(cs.data, DOMAIN cs.data))

client_list(st) == ConnectionStore_list(st.cons)

\* CommandStore::count
CommandStore_count ==
    LET Sum[S \in SUBSET container_commands] ==
            IF S = {} THEN 0
            ELSE LET c == CHOOSE x \in S : TRUE
                 IN  Cardinality(subcommands(c))
                     + (IF has_handler(c) THEN 1 ELSE 0) + Sum[S \ {c}]
    IN  Integer(Cardinality(simple_commands)
                + Cardinality(controller_commands) + Sum[container_commands])

\* the variants of AclCategory by name
AclCategory_Admin == AclCategories[1]
AclCategory_Connection == AclCategories[2]
AclCategory_Dangerous == AclCategories[3]
AclCategory_Fast == AclCategories[4]
AclCategory_Keyspace == AclCategories[5]
AclCategory_Read == AclCategories[6]
AclCategory_Slow == AclCategories[7]
AclCategory_String == AclCategories[8]
AclCategory_Write == AclCategories[9]
AclCategory_Scripting == AclCategories[10]

\* format!("{k}|{k2}")
SubKey(k, k2) == k \o <<"|">> \o k2

\* the `category` field of every descriptor, by the key it is listed under
CategoryOf(key) ==
    CASE key = n_flushdb ->
            {AclCategory_Keyspace, AclCategory_Write, AclCategory_Slow, AclCategory_Dangerous}
      [] key = n_ping ->
            {AclCategory_Fast, AclCategory_Connection}
      [] key = n_echo ->
            {AclCategory_Fast, AclCategory_Connection}
      [] key = n_dbsize ->
            {AclCategory_Keyspace, AclCategory_Read, AclCategory_Fast}
      [] key = n_exists ->
            {AclCategory_Keyspace, AclCategory_Read, AclCategory_Fast}
      [] key = n_del ->
            {AclCategory_Keyspace, AclCategory_Write, AclCategory_Slow}
      [] key = n_keys ->
            {AclCategory_Keyspace, AclCategory_Read, AclCategory_Slow, AclCategory_Dangerous}
      [] key = n_select ->
            {AclCategory_Fast, AclCategory_Connection}
      [] key = n_flushall ->
            {AclCategory_Keyspace, AclCategory_Write, AclCategory_Slow, AclCategory_Dangerous}
      [] key = n_swapdb ->
            {AclCategory_Keyspace, AclCategory_Write, AclCategory_Fast, AclCategory_Dangerous}
      [] key = n_get ->
            {AclCategory_Read, AclCategory_String, AclCategory_Fast}
      [] key = n_set ->
            {AclCategory_Write, AclCategory_String, AclCategory_Slow}
      [] key = n_mget ->
            {AclCategory_Read, AclCategory_String, AclCategory_Fast}
      [] key = n_mset ->
            {AclCategory_Write, AclCategory_String, AclCategory_Slow}
      [] key = n_msetnx ->
            {AclCategory_Write, AclCategory_String, AclCategory_Slow}
      [] key = n_append ->
            {AclCategory_Write, AclCategory_String, AclCategory_Fast}
      [] key = n_strlen ->
            {AclCategory_Read, AclCategory_String, AclCategory_Fast}
      [] key = n_incr ->
            {AclCategory_Write, AclCategory_String, AclCategory_Fast}
      [] key = n_decr ->
            {AclCategory_Write, AclCategory_String, AclCategory_Fast}
      [] key = n_incrby ->
            {AclCategory_Write, AclCategory_String, AclCategory_Fast}
      [] key = n_decrby ->
            {AclCategory_Write, AclCategory_String, AclCategory_Fast}
      [] key = n_incrbyfloat ->
            {AclCategory_Write, AclCategory_String, AclCategory_Fast}
      [] key = n_acl ->
            {AclCategory_Slow}
      [] key = SubKey(n_acl, n_cat) ->
            {AclCategory_Slow}
      [] key = n_client ->
            {AclCategory_Slow}
      [] key = SubKey(n_client, n_id) ->
            {AclCategory_Slow, AclCategory_Connection}
      [] key = SubKey(n_client, n_list) ->
            {AclCategory_Admin, AclCategory_Slow, AclCategory_Dangerous, AclCategory_Connection}
      [] key = n_command ->
            {AclCategory_Slow, AclCategory_Connection}
      [] key = SubKey(n_command, n_count) ->
            {AclCategory_Slow, AclCategory_Connection}
      [] key = SubKey(n_command, n_list) ->
            {AclCategory_Slow, AclCategory_Connection}
      [] key = n_function ->
            {AclCategory_Slow}
      [] key = SubKey(n_function, n_flush) ->
            {AclCategory_Write, AclCategory_Slow, AclCategory_Scripting}
      [] key = n_config ->
            {AclCategory_Slow}
      [] key = SubKey(n_config, n_get) ->
            {AclCategory_Admin, AclCategory_Slow, AclCategory_Dangerous}

\* generate_command_name_to_category: the keys of the map it returns
name_to_category ==
    simple_commands \cup container_commands
        \cup UNION {{SubKey(k, k2) : k2 \in subcommands(k)} :
                        k \in container_commands}
        \cup controller_commands

\* the bytes command names are made of, in ascending byte order
NameBytes == <<"a","b","c","d","e","f","g","h","i","j","k","l","m","n","o",
               "p","q","r","s","t","u","v","w","x","y","z", "|">>

ByteRank(c) == CHOOSE i \in 1..Len(NameBytes) : NameBytes[i] = c

\* Ord for Vec<u8>: the first differing byte decides, a prefix comes first
RECURSIVE BytesLess(_, _)
BytesLess(a, b) ==
    IF b = <<>> THEN FALSE
    ELSE IF a = <<>> THEN TRUE
    ELSE IF Head(a) # Head(b) THEN ByteRank(Head(a)) < ByteRank(Head(b))
    ELSE BytesLess(Tail(a), Tail(b))

\* sort_unstable of a set of distinct names
RECURSIVE sort_unstable(_)
sort_unstable(S) ==
    IF S = {} THEN <<>>
    ELSE LET least == CHOOSE x \in S : \A y \in S \ {x} : BytesLess(x, y)
         IN  <<least>> \o sort_unstable(S \ {least})

BulkStrings(names) == [i \in 1..Len(names) |-> BulkString(names[i])]

\* initialise_command_names: CommandStore.names
CommandStore_names == Array(BulkStrings(sort_unstable(name_to_category)))

\* initialise_category_map: CommandStore.commands_by_acl_category[cat]
commands_by_acl_category(cat) ==
    Array(BulkStrings(sort_unstable(
        {key \in name_to_category : cat \in CategoryOf(key)})))

\* AclCategory::array: the variants as strum iterates them, in the order of
\* their declaration
AclCategory_array == Array(BulkStrings(AclCategories))

\* CommandStore::list
CommandStore_list(filter) ==
    CASE filter.f = "All" -> CommandStore_names
      [] filter.f = "Category" -> commands_by_acl_category(filter.a)
      [] filter.f = "Pattern" ->
            KeysFilter(Finder_new(filter.a),
                       [i \in 1..Len(CommandStore_names.v) |->
                           CommandStore_names.v[i].v], <<>>)

\* Controller::acl_cat
acl_cat(category) ==
    IF category.some THEN commands_by_acl_category(category.v)
    ELSE AclCategory_array

handle_interrupt(st, res, id) ==
    IF ~res.ok THEN [db |-> st.db, cons |-> st.cons, out |-> res.err]
    ELSE CASE res.int.k = "AclCat" ->
                [db |-> st.db, cons |-> st.cons, out |-> acl_cat(res.int.a)]
           [] res.int.k = "CommandList" ->
                [db |-> st.db, cons |-> st.cons,
                 out |-> CommandStore_list(res.int)]
           [] res.int.k = "ClientList" ->
                [db |-> st.db, cons |-> st.cons, out |-> client_list(st)]
           [] res.int.k = "ClientId" ->
                [db |-> st.db, cons |-> st.cons, out |-> client_id(id)]
           [] res.int.k = "CommandCount" ->
                [db |-> st.db, cons |-> st.cons, out |-> CommandStore_count]
           [] res.int.k = "Select" -> select(st, id, res.int.a)
           [] res.int.k = "SwapDb" -> swap_db(st, res.int.a, res.int.b)
           [] res.int.k = "FlushAll" -> flushall(st)

\* a faulty selection that always takes the first database
get_db_id_first(st, id) == 0

\* Controller::get_db_id
get_db_id(st, id) == st.cons.data[id].db

\* a faulty miss that echoes the folded name
UnknownCommand_lowercased(name_bs) ==
    <<"ERR unknown command '", to_ascii_lowercase(name_bs), "'">>

UnknownCommand(name_bs) == <<"ERR unknown command '", name_bs, "'">>

Done(st, reply) ==
    [db |-> st.db, cons |-> st.cons, reply |-> reply, panic |-> FALSE,
     hang |-> FALSE]

Panic(st) ==
    [db |-> st.db, cons |-> st.cons, reply |-> <<>>, panic |-> TRUE,
     hang |-> FALSE]

\* the handler never returns
Hang(st) ==
    [db |-> st.db, cons |-> st.cons, reply |-> <<>>, panic |-> FALSE,
     hang |-> TRUE]

\* Controller::execute.  input[0] of an empty request, a connection id the
\* store does not hold, and a selected index outside the fleet all panic.
Controller_execute(st, input, id) ==
    IF ~ConnectionStore_has(st.cons, id) THEN Panic(st)
    ELSE IF input = <<>> THEN Panic(st)
    ELSE LET name_bs == input[1]
             name == to_ascii_lowercase(name_bs)
             rest == Tail(input)
             sel == get_db_id(st, id)
         IN  IF ~IsUtf8(name_bs)
             THEN Done(st, to_redis_error(UnknownCommand(name_bs)))
             ELSE IF name \in simple_commands
             THEN IF sel \notin DOMAIN st.db THEN Panic(st)
                  ELSE LET r == SimpleCommand_execute(name, st.db[sel], rest)
                       IN  IF r.out.t = "Panic" THEN Panic(st)
                           ELSE IF r.out.t = "Hang" THEN Hang(st)
                           ELSE Done([db |-> [st.db EXCEPT ![sel] = r.map],
                                      cons |-> st.cons],
                                     to_bytes_vec(r.out))
             ELSE IF name \in container_commands
             THEN LET r == handle_interrupt(
                               st, ContainerCommand_execute(name, rest), id)
                  IN  IF r.out.t = "Panic" THEN Panic(st)
                      ELSE IF r.out.t = "Hang" THEN Hang(st)
                      ELSE Done([db |-> r.db, cons |-> r.cons],
                                to_bytes_vec(r.out))
             ELSE IF name \in controller_commands
             THEN LET r == handle_interrupt(
                               st, ControllerCommand_execute(name, rest), id)
                  IN  Done([db |-> r.db, cons |-> r.cons], to_bytes_vec(r.out))
             ELSE Done(st, to_redis_error(UnknownCommand(name_bs)))

Controller_connect(st, addr) ==
    LET r == ConnectionStore_connect(st.cons, addr)
    IN  [st |-> [db |-> st.db, cons |-> r.cs], id |-> r.id]

Controller_disconnect(st, id) ==
    [db |-> st.db, cons |-> ConnectionStore_disconnect(st.cons, id)]

-----------------------------------------------------------------------------
(* Handle (wrapper.rs): the connection's grip on the shared controller.    *)

ControllerWrapper_connect(st, addr) == Controller_connect(st, addr)

Handle_execute(st, id, input) == Controller_execute(st, input, id)

\* a faulty Drop that does not disconnect
Handle_drop_leak(st, id) == [db |-> st.db, cons |-> st.cons]

\* Drop for Handle
Handle_drop(st, id) == Controller_disconnect(st, id)

-----------------------------------------------------------------------------
(* The parser as handle_stream uses it.  The buffer is kept as a sequence  *)
(* of frames: a frame is a complete top-level value or a malformed one.    *)

PBulk(bs) == [t |-> "BulkString", s |-> bs, items |-> <<>>]
PArray(items) == [t |-> "Array", s |-> <<>>, items |-> items]

ValueFrame(v) == [k |-> "value", v |-> v, reason |-> <<>>]
MalformedFrame(reason) == [k |-> "malformed", v |-> PBulk(<<>>), reason |-> reason]

\* the frame of a request: an array of bulk strings
RequestFrame(req) == ValueFrame(PArray([i \in 1..Len(req) |-> PBulk(req[i])]))

\* Parser::parse: None, Some(Ok(value)) or Some(Err(reason)); an error
\* discards what is buffered
Parser_parse(buf) ==
    IF buf = <<>> THEN [r |-> "None", buf |-> buf]
    ELSE IF Head(buf).k = "value"
    THEN [r |-> "Ok", v |-> Head(buf).v, buf |-> Tail(buf)]
    ELSE [r |-> "Err", e |-> Head(buf).reason, buf |-> <<>>]

-----------------------------------------------------------------------------
(* The byte-level parser of parser.rs: extend() appends bytes to           *)
(* bytes_buffer, parse() moves a request to value_buffer, pop() takes it.  *)
(* A call ends "ok", or it panics, or it never returns ("hang").           *)

CRLF == <<"\r", "\n">>

\* Value (value.rs), as far as the parser builds it
Value_BulkString(b) == [t |-> "BulkString", b |-> b, items |-> <<>>]
Value_Array(items) == [t |-> "Array", b |-> <<>>, items |-> items]

\* the concatenation of the byte-strings of q
RECURSIVE ConcatBytes(_)
ConcatBytes(q) == IF q = <<>> THEN <<>> ELSE Head(q) \o ConcatBytes(Tail(q))

\* to_bytes_vec of a BulkString or an Array, byte by byte
RECURSIVE encode(_)
encode(v) ==
    IF v.t = "BulkString"
    THEN <<"$">> \o to_string(Len(v.b)) \o CRLF \o v.b \o CRLF
    ELSE <<"*">> \o to_string(Len(v.items)) \o CRLF
             \o ConcatBytes([i \in 1..Len(v.items) |-> encode(v.items[i])])

\* a faulty length loop that stops at "\r" and leaves the "\n" in the buffer
RECURSIVE ReadLength_to_cr(_, _)
ReadLength_to_cr(buf, len_buffer) ==
    IF buf = <<>> THEN [r |-> "hang", len |-> <<>>, rest |-> <<>>]
    ELSE IF Head(buf) = "\r"
    THEN [r |-> "ok", len |-> len_buffer, rest |-> Tail(buf)]
    ELSE ReadLength_to_cr(Tail(buf), Append(len_buffer, Head(buf)))

\* the "read length" loop: pops bytes into len_buffer up to "\r\n"; on an
\* empty buffer it spins, and "\r" not followed by "\n" is a todo!()
RECURSIVE ReadLength(_, _)
ReadLength(buf, len_buffer) ==
    IF buf = <<>> THEN [r |-> "hang", len |-> <<>>, rest |-> <<>>]
    ELSE IF Head(buf) = "\r"
    THEN IF Len(buf) >= 2 /\ buf[2] = "\n"
         THEN [r |-> "ok", len |-> len_buffer, rest |-> SubSeq(buf, 3, Len(buf))]
         ELSE [r |-> "panic", len |-> <<>>, rest |-> <<>>]
    ELSE ReadLength(Tail(buf), Append(len_buffer, Head(buf)))

\* the outcome of parse_item and RespArrayParser::parse: Some(v), None, a
\* panic or a hang, and the bytes left in bytes_buffer
ItemSome(v, rest) == [r |-> "some", v |-> v, rest |-> rest]
ItemNone(rest) == [r |-> "none", v |-> Value_BulkString(<<>>), rest |-> rest]
ItemStop(r) == [r |-> r, v |-> Value_BulkString(<<>>), rest |-> <<>>]

RECURSIVE parse_item(_)
RECURSIVE RespArrayParser_parse(_, _, _)

\* RespArrayParser::parse_item
parse_item(buf) ==
    IF buf = <<>> \/ Head(buf) \notin {"*", "$"} THEN ItemStop("panic")
    ELSE \* read length
         LET rl == ReadLength(Tail(buf), <<>>)
             len == parse_into_usize(rl.len)
         IN  IF rl.r # "ok" THEN ItemStop(rl.r)
             ELSE IF ~len.some THEN ItemStop("panic")
             ELSE IF Head(buf) = "*"
             THEN RespArrayParser_parse(len.v, rl.rest, <<>>)
             ELSE IF Len(rl.rest) < len.v + 2 THEN ItemNone(rl.rest)
             ELSE IF rl.rest[len.v + 1] # "\r" \/ rl.rest[len.v + 2] # "\n"
             THEN ItemStop("panic")
             ELSE ItemSome(Value_BulkString(SubSeq(rl.rest, 1, len.v)),
                           SubSeq(rl.rest, len.v + 3, Len(rl.rest)))

\* RespArrayParser::parse: item_count items, or None at the first that is
\* not there yet
RespArrayParser_parse(item_count, buf, item_buffer) ==
    IF item_count = 0 THEN ItemSome(Value_Array(item_buffer), buf)
    ELSE LET i == parse_item(buf)
         IN  IF i.r = "some"
             THEN RespArrayParser_parse(item_count - 1, i.rest,
                                        Append(item_buffer, i.v))
             ELSE i

\* Parser::new
Parser_new == [mode |-> "Unknown", value_buffer |-> <<>>, bytes_buffer |-> <<>>]

Returned(r, self) == [r |-> r, self |-> self]

\* Parser::parse_resp
parse_resp(self) ==
    IF Head(self.bytes_buffer) # "*" THEN Returned("panic", self)
    ELSE LET rl == ReadLength(Tail(self.bytes_buffer), <<>>)
             len == parse_into_usize(rl.len)
         IN  IF rl.r # "ok" THEN Returned(rl.r, self)
             ELSE IF ~len.some THEN Returned("panic", self)
             ELSE LET value == RespArrayParser_parse(len.v, rl.rest, <<>>)
                  IN  IF value.r \in {"panic", "hang"}
                      THEN Returned(value.r, self)
                      ELSE Returned("ok",
                               [self EXCEPT
                                   !.bytes_buffer = value.rest,
                                   !.value_buffer =
                                       IF value.r = "some"
                                       THEN Append(@, value.v) ELSE @])

\* Parser::parse_inline: todo!()
parse_inline(self) == Returned("panic", self)

\* Parser::parse
parse(self) ==
    IF self.bytes_buffer = <<>> THEN Returned("ok", self)
    ELSE LET mode == IF self.mode = "Unknown"
                     THEN IF Head(self.bytes_buffer) = "*" THEN "Resp"
                          ELSE "Inline"
                     ELSE self.mode
         IN  IF mode = "Resp" THEN parse_resp([self EXCEPT !.mode = mode])
             ELSE parse_inline([self EXCEPT !.mode = mode])

\* Parser::pop: the value pushed last, if any
pop(self) ==
    IF self.value_buffer = <<>> THEN [v |-> <<>>, self |-> self]
    ELSE [v |-> <<self.value_buffer[Len(self.value_buffer)]>>,
          self |-> [self EXCEPT
                       !.value_buffer = SubSeq(@, 1, Len(@) - 1)]]

\* Extend for Parser
extend(self, bytes) == [self EXCEPT !.bytes_buffer = @ \o bytes]

\* what is fed to the parser: the kind of input, the request it encodes (if
\* it does), the bytes not yet delivered, the number of pieces delivered so
\* far (2 standing for more), whether parse was called since the last
\* piece, how the calls ended, and the values popped
Stream(kind, req, wire) ==
    [kind |-> kind, req |-> req, wire |-> wire, pieces |-> 0,
     parsed |-> FALSE, status |-> "ok", popped |-> <<>>]

\* a piece of n bytes arrives and is handed to the parser
Feed(n) ==
    /\ stream.kind # "idle" /\ stream.status = "ok"
    /\ stream.pieces = 0 \/ stream.parsed
    /\ n \in 1..Len(stream.wire)
    /\ parser' = extend(parser, SubSeq(stream.wire, 1, n))
    /\ stream' = [stream EXCEPT
                     !.wire = SubSeq(@, n + 1, Len(@)),
                     !.pieces = IF @ = 0 THEN 1 ELSE 2,
                     !.parsed = FALSE]

\* parser.parse()
CallParse ==
    /\ stream.kind # "idle" /\ stream.status = "ok"
    /\ \E res \in {parse(parser)} :
           /\ parser' = res.self
           /\ stream' = [stream EXCEPT !.parsed = TRUE, !.status = res.r]

\* parser.pop()
CallPop ==
    /\ stream.kind # "idle" /\ stream.status = "ok"
    /\ \E res \in {pop(parser)} :
           /\ parser' = res.self
           /\ stream' = [stream EXCEPT !.popped = @ \o res.v]

ParserIdle ==
    UNCHANGED <<debug_assertions, db, cons, pc, con_id, results, pbuf, ex_log,
                crashed, core, core_last, core_hi, glob, idcall, running,
                borrow,
                pending>>

-----------------------------------------------------------------------------
(* handle_stream (main.rs).                                                *)

remove_non_command_values(value) ==
    IF value.t = "BulkString"
    THEN [ok |-> FALSE, e |-> <<"ERR Unexpected bare bulk string">>]
    ELSE IF \E i \in 1..Len(value.items) : value.items[i].t = "Array"
    THEN [ok |-> FALSE, e |-> <<"ERR nested arrays are not supported">>]
    ELSE [ok |-> TRUE,
          v |-> [i \in 1..Len(value.items) |-> value.items[i].s]]

\* the parse loop: `values` and `error` grow as the frames are taken; n is
\* the position of the next frame in the batch (kept for the properties only)
RECURSIVE ParseLoop(_, _, _, _)
ParseLoop(buf, n, values, error) ==
    LET p == Parser_parse(buf)
    IN  IF p.r = "None" THEN [buf |-> p.buf, values |-> values, error |-> error]
        ELSE IF p.r = "Err"
        THEN [buf |-> p.buf, values |-> values,
              error |-> Append(error, [frame |-> n, src |-> "error",
                                       bytes |-> to_redis_error(p.e)])]
        ELSE LET c == remove_non_command_values(p.v)
             IN  IF c.ok
                 THEN ParseLoop(p.buf, n + 1,
                                Append(values, [frame |-> n, input |-> c.v]), error)
                 ELSE ParseLoop(p.buf, n + 1, values,
                                Append(error, [frame |-> n, src |-> "error",
                                               bytes |-> to_redis_error(c.e)]))

\* one element of values.into_iter().map(|v| handle.execute(v)), r being
\* what handle.execute returned for it
RECURSIVE ExecuteAll(_, _, _, _, _)
ExecuteNext(st, values, id, replies, log, r) ==
    LET v == Head(values)
        entry == [con |-> id, frame |-> v.frame, input |-> v.input,
                  reply |-> r.reply, panic |-> r.panic, hang |-> r.hang,
                  db0 |-> st.db, cons0 |-> st.cons,
                  db1 |-> r.db, cons1 |-> r.cons]
    IN  IF r.panic \/ r.hang
        THEN [st |-> st, replies |-> replies, log |-> Append(log, entry),
              panic |-> TRUE]
        ELSE ExecuteAll([db |-> r.db, cons |-> r.cons], Tail(values), id,
                        Append(replies, [frame |-> v.frame, src |-> "value",
                                         bytes |-> r.reply]),
                        Append(log, entry))

\* values.into_iter().map(|v| handle.execute(v)): a panic ends the process,
\* a call that never returns blocks it (`panic` stands for both below)
ExecuteAll(st, values, id, replies, log) ==
    IF values = <<>>
    THEN [st |-> st, replies |-> replies, log |-> log, panic |-> FALSE]
    ELSE CHOOSE res \in
            { ExecuteNext(st, values, id, replies, log, r) :
                r \in {Handle_execute(st, id, Head(values).input)} } : TRUE

\* results: the replies of the executed values, then the errors
Results(replies, error) == replies \o error

St == [db |-> db, cons |-> cons]

CoreUnchanged ==
    UNCHANGED <<core, core_last, core_hi, debug_assertions, glob, parser, stream,
                idcall, running, borrow,
                pending>>

\* accept: connect and enter the read loop
Accept(t) ==
    /\ ~crashed
    /\ pc[t] = "idle"
    /\ cons.next_id < MaxIds
    /\ LET r == ControllerWrapper_connect(St, t)
       IN  /\ cons' = r.st.cons
           /\ con_id' = [con_id EXCEPT ![t] = r.id]
    /\ pc' = [pc EXCEPT ![t] = "read"]
    /\ ex_log' = <<>>
    /\ UNCHANGED <<db, results, pbuf, crashed>>
    /\ CoreUnchanged

\* read returned n > 0 bytes holding the frames of `batch`; parse, execute
Read(t, batch) ==
    /\ ~crashed
    /\ pc[t] = "read"
    /\ \E pl \in {ParseLoop(pbuf[t] \o batch, 1, <<>>, <<>>)} :
       \E ex \in {ExecuteAll(St, pl.values, con_id[t], <<>>, <<>>)} :
       \E rs \in {Results(ex.replies, pl.error)} :
           /\ db' = ex.st.db
           /\ cons' = ex.st.cons
           /\ crashed' = ex.panic
           /\ ex_log' = ex.log
           /\ pbuf' = [pbuf EXCEPT ![t] = pl.buf]
           /\ results' = [results EXCEPT ![t] = IF ex.panic THEN <<>> ELSE rs]
           /\ pc' = [pc EXCEPT ![t] =
                        IF ex.panic \/ rs = <<>> THEN "read" ELSE "write"]
    /\ UNCHANGED con_id
    /\ CoreUnchanged

\* the handler returns and the Handle is dropped
EndOfStream(t) ==
    /\ ~crashed
    /\ pc[t] = "read"
    /\ cons' = Handle_drop(St, con_id[t]).cons
    /\ con_id' = [con_id EXCEPT ![t] = NoId]
    /\ pc' = [pc EXCEPT ![t] = "idle"]
    /\ pbuf' = [pbuf EXCEPT ![t] = <<>>]
    /\ ex_log' = <<>>
    /\ UNCHANGED <<db, results, crashed>>
    /\ CoreUnchanged

\* read returned Ok(0): stop, nothing left to parse, leave the loop
ReadEof(t) == EndOfStream(t)

\* read returned Err: break
ReadErr(t) == EndOfStream(t)

\* write_all + flush of the next reply
Write(t) ==
    /\ ~crashed
    /\ pc[t] = "write"
    /\ results' = [results EXCEPT ![t] = Tail(results[t])]
    /\ pc' = [pc EXCEPT ![t] = IF Tail(results[t]) = <<>> THEN "read" ELSE "write"]
    /\ ex_log' = <<>>
    /\ UNCHANGED <<db, cons, con_id, pbuf, crashed>>
    /\ CoreUnchanged

-----------------------------------------------------------------------------
(* The bounded connection store (executor/core/id.rs, connection.rs) and   *)
(* the accept path of handle_stream that may be refused.  The id is a u8   *)
(* in the source; the model keeps the wrap-around at IdBits bits.          *)

IdSpace == Pow2(IdBits)

\* ConnectionId::plus_one: wrapping_add(1)
plus_one(id) == (id + 1) % IdSpace

\* a faulty minus_one that returns its argument
minus_one_same(id) == id

\* ConnectionId::minus_one: wrapping_sub(1)
minus_one(id) == (id + IdSpace - 1) % IdSpace

Core_default == [data |-> [i \in {} |-> ConnectionState_new(0)], next_id |-> 0]

\* ConnectionIdGenerator::get_id
get_id(cs) == [cs |-> [cs EXCEPT !.next_id = plus_one(cs.next_id)],
               id |-> cs.next_id]

\* ConnectionIdGenerator::peek_id
peek_id(cs) == cs.next_id

\* the loop of ConnectionStore::connect
RECURSIVE Core_connect_loop(_, _, _)
Core_connect_loop(cs, first, addr) ==
    LET g == get_id(cs)
    IN  IF g.id \notin DOMAIN g.cs.data
        THEN [cs |-> [g.cs EXCEPT !.data =
                         insert(g.cs.data, g.id, ConnectionState_new(addr))],
              res |-> Some(g.id)]
        ELSE IF g.id = first THEN [cs |-> g.cs, res |-> None]
        ELSE Core_connect_loop(g.cs, first, addr)

\* ConnectionStore::connect (executor/core)
Core_connect(cs, addr) == Core_connect_loop(cs, minus_one(peek_id(cs)), addr)

\* ConnectionStore::disconnect (executor/core)
Core_disconnect(cs, id) == [cs EXCEPT !.data = remove(cs.data, id)]

ConnectionFull == <<"-ERR connection full, try again\r\n">>

MainUnchanged ==
    UNCHANGED <<debug_assertions, db, cons, pc, con_id, results, pbuf, ex_log,
                crashed, glob, parser, stream, idcall, running, borrow,
                pending>>

\* handle_stream up to the read loop: connect, or tell the client and return
CoreAccept(addr) ==
    /\ LET r == Core_connect(core, addr)
       IN  /\ core' = r.cs
           /\ core_last' = [op |-> "connect", ok |-> r.res.some,
                            id |-> IF r.res.some THEN r.res.v ELSE NoId,
                            wrote |-> IF r.res.some THEN <<>> ELSE ConnectionFull]
    /\ core_hi' = IF core_last.ok /\ core_last.id > core_hi
                  THEN core_last.id ELSE core_hi
    /\ MainUnchanged

\* a handler of the bounded store ends: its Handle is dropped
CoreClose(id) ==
    /\ id \in DOMAIN core.data
    /\ core' = Core_disconnect(core, id)
    /\ core_last' = [op |-> "disconnect", ok |-> FALSE, id |-> id, wrote |-> <<>>]
    /\ core_hi' = IF core_last.ok /\ core_last.id > core_hi
                  THEN core_last.id ELSE core_hi
    /\ MainUnchanged

-----------------------------------------------------------------------------
(* Inputs.                                                                 *)

\* the sockets: two connections are enough for one to disturb the other
Tasks == {1, 2}

kA == <<"a">>
kB == <<"b">>
vX == <<"x">>
vY == <<"y">>
i0 == <<"0">>
i1 == <<"1">>
\* the first index past the fleet, in decimal
iOut == <<Digits[DbCount + 1]>>

c_SET == <<"S","E","T">>
c_GET == <<"G","E","T">>
c_PING == <<"P","I","N","G">>
c_MSETNX == <<"M","S","E","T","N","X">>
c_SELECT == <<"S","E","L","E","C","T">>
c_SWAPDB == <<"S","W","A","P","D","B">>

\* the last index of the fleet, in decimal
iLast == <<Digits[DbCount]>>

\* the requests the connections of Spec send, one per read
Requests ==
    { <<c_SET, kA, vX>>,
      <<c_GET, kA>>,
      <<<<"d","e","l">>, kA>>,
      <<<<"F","L","U","S","H","D","B">>>>,
      <<<<"f","l","u","s","h","a","l","l">>>>,
      <<c_SELECT, i0>>,
      <<<<"s","e","l","e","c","t">>, i1>>,
      <<<<"S","e","l","e","c","t">>, iOut>>,
      <<c_SELECT, vX>>,
      <<c_SWAPDB, i0, i1>>,
      <<<<"s","w","a","p","d","b">>, iOut, i0>>,
      <<<<"n","o","s","u","c","h","x">>>>,
      <<<<BadByte>>>>,
      <<>> }

\* the requests of SpecData: one connection, two keys, two values
DataRequests ==
    { <<c_SET, kA, vX>>,
      <<c_SET, kB, vY>>,
      <<c_MSETNX, kA, vY>>,
      <<c_MSETNX, kA, vX, kB, vX>>,
      <<<<"m","s","e","t","n","x">>, kB, vY, kB, vX>>,
      <<c_MSETNX, kA, vX, kB>>,
      <<c_GET, kA>>,
      <<<<"D","E","L">>, kA, kB>>,
      <<c_SELECT, i1>>,
      <<c_SELECT, i0>> }

\* frames of the pipelined batches of SpecPipe
NestedFrame == ValueFrame(PArray(<<PBulk(c_PING), PArray(<<>>)>>))
BareFrame == ValueFrame(PBulk(c_PING))
BadFrame == MalformedFrame(<<"ERR invalid data type">>)

PipeFrames ==
    { RequestFrame(<<c_PING>>),
      RequestFrame(<<c_SET, kA, vX>>),
      RequestFrame(<<c_GET, kA>>),
      NestedFrame, BareFrame, BadFrame }

\* longest batch of one read
MaxBatch == 2

\* longest sequence of commands pipelined in one read
MaxSeq == 3
MaxStrLen == 3
MaxPat == 3
MaxInput == 2
MaxItems == 2
MaxElems == 2

RECURSIVE SeqsUpTo(_, _)
SeqsUpTo(S, n) ==
    IF n = 0 THEN {<<>>}
    ELSE LET shorter == SeqsUpTo(S, n - 1)
         IN  shorter \cup {Append(q, x) : q \in shorter, x \in S}

Batches == SeqsUpTo(PipeFrames, MaxBatch) \ {<<>>}

InitMain ==
    /\ debug_assertions \in BOOLEAN
    /\ db = Database_new(DbCount)
    /\ cons = ConnectionStore_default
    /\ pc = [t \in Tasks |-> "idle"]
    /\ con_id = [t \in Tasks |-> NoId]
    /\ results = [t \in Tasks |-> <<>>]
    /\ pbuf = [t \in Tasks |-> <<>>]
    /\ ex_log = <<>>
    /\ crashed = FALSE

\* no call of client_id on its own
InitIdCallIdle == idcall = [id |-> 0, out |-> [t |-> "none"]]

\* the executor polls no task and the RefCell is not borrowed
InitBorrow ==
    /\ running = 0
    /\ borrow = [holder |-> 0, op |-> "none", failed |-> FALSE]
    /\ pending = [t \in Tasks |-> <<>>]

InitCore ==
    /\ InitBorrow
    /\ core = Core_default
    /\ core_last = [op |-> "none", ok |-> FALSE, id |-> NoId, wrote |-> <<>>]
    /\ core_hi = NoId

\* no call of the matcher on its own
InitGlobIdle == glob = [pattern |-> <<>>, input |-> <<>>, out |-> "none"]

\* nothing is fed to the byte-level parser
InitParserIdle ==
    /\ parser = Parser_new
    /\ stream = Stream("idle", <<>>, <<>>)

Init == InitMain /\ InitCore /\ InitGlobIdle /\ InitParserIdle /\ InitIdCallIdle

Next ==
    \E t \in Tasks :
        \/ Accept(t)
        \/ \E req \in Requests : Read(t, <<RequestFrame(req)>>)
        \/ ReadEof(t)
        \/ ReadErr(t)
        \/ Write(t)

Spec == Init /\ [][Next]_vars

\* peer addresses of the clients of the bounded store
Peers == {1, 2}

NextCore ==
    \/ \E a \in Peers : CoreAccept(a)
    \/ \E id \in 0..(IdSpace - 1) : CoreClose(id)

SpecCore == Init /\ [][NextCore]_vars

NextData ==
    \/ Accept(1)
    \/ \E req \in DataRequests : Read(1, <<RequestFrame(req)>>)
    \/ ReadEof(1)
    \/ Write(1)

SpecData == Init /\ [][NextData]_vars

NextPipe ==
    \/ Accept(1)
    \/ \E batch \in Batches : Read(1, batch)
    \/ ReadErr(1)
    \/ Write(1)

SpecPipe == Init /\ [][NextPipe]_vars

\* the requests of SpecSwap: one key to tell the databases apart, SELECT
\* and SWAPDB
SwapCommands ==
    { <<c_SWAPDB, i0, iLast>>,
      <<<<"s","w","a","p","d","b">>, iLast, i0>>,
      <<c_SWAPDB, i1, i1>>,
      <<c_SWAPDB, i0, iOut>>,
      <<c_SWAPDB, iOut, i0>>,
      <<c_SWAPDB, iOut, iOut>> }

SwapRequests ==
    SwapCommands \cup
    { <<c_SET, kA, vX>>,
      <<c_SELECT, i0>>,
      <<c_SELECT, iLast>> }

\* one request per read, or a SWAPDB sent twice in one read
SwapBatches ==
    {<<RequestFrame(r)>> : r \in SwapRequests}
        \cup {<<RequestFrame(r), RequestFrame(r)>> : r \in SwapCommands}

NextSwap ==
    \E t \in Tasks :
        \/ Accept(t)
        \/ \E batch \in SwapBatches : Read(t, batch)
        \/ ReadEof(t)
        \/ Write(t)

SpecSwap == Init /\ [][NextSwap]_vars

\* a batch of request frames for each sequence of up to n requests of R
RequestBatches(R, n) ==
    {[i \in 1..Len(q) |-> RequestFrame(q[i])] : q \in SeqsUpTo(R, n) \ {<<>>}}

\* the requests of SpecSet: SET and GET on two keys of one database
SetRequests ==
    { <<c_SET, kA, vX>>,
      <<c_SET, kA, vY>>,
      <<<<"s","e","t">>, kB, vX>>,
      <<c_GET, kA>>,
      <<<<"g","e","t">>, kB>> }

NextSet ==
    \/ Accept(1)
    \/ \E batch \in RequestBatches(SetRequests, MaxSeq) : Read(1, batch)
    \/ ReadEof(1)
    \/ Write(1)

SpecSet == Init /\ [][NextSet]_vars

c_INCR == <<"I","N","C","R">>
c_DECR == <<"D","E","C","R">>
c_INCRBY == <<"I","N","C","R","B","Y">>
c_DECRBY == <<"D","E","C","R","B","Y">>

\* decimal arguments: the two ends of the integer range, and small steps
sMax == to_string(I64Max)
sMin == to_string(I64Min)
NumArgs == {sMax, sMin, <<"2">>, <<"-","1">>}

\* strings a client may store under the counter
NumStrings == {sMax, sMin, <<"+","1">>, <<"0","3">>, <<"-","0">>, vX}

\* the requests of SpecNum: one counter key
NumRequests ==
    {<<c_SET, kA, v>> : v \in NumStrings}
        \cup {<<c_INCRBY, kA, n>> : n \in NumArgs}
        \cup {<<c_DECRBY, kA, n>> : n \in NumArgs}
        \cup { <<c_INCR, kA>>,
               <<c_DECR, kA>>,
               <<<<"i","n","c","r","b","y">>, kA, vX>>,
               <<<<"d","e","l">>, kA>> }

\* one request per read, or INCR and DECR of the counter in one read
NumBatches ==
    {<<RequestFrame(r)>> : r \in NumRequests}
        \cup { <<RequestFrame(<<c_INCR, kA>>), RequestFrame(<<c_DECR, kA>>)>>,
               <<RequestFrame(<<c_DECR, kA>>), RequestFrame(<<c_INCR, kA>>)>> }

NextNum ==
    \/ Accept(1)
    \/ \E batch \in NumBatches : Read(1, batch)
    \/ ReadEof(1)
    \/ Write(1)

SpecNum == Init /\ [][NextNum]_vars

c_MSET == <<"M","S","E","T">>
c_APPEND == <<"A","P","P","E","N","D">>
c_STRLEN == <<"S","T","R","L","E","N">>
c_DEL == <<"D","E","L">>
c_FLUSHDB == <<"F","L","U","S","H","D","B">>
vEmpty == <<>>

\* the requests of SpecLen that store, replace or remove strings
LenWrites ==
    { <<c_SET, kA, vX>>,
      <<c_SET, kA, vEmpty>>,
      <<c_MSET, kA, vX \o vY, kB, vY>>,
      <<c_INCR, kA>>,
      <<c_DECR, kB>>,
      <<c_DEL, kA>>,
      <<c_FLUSHDB>> }

\* the requests of SpecLen that make a string longer
LenAppends ==
    { <<c_APPEND, kA, vX>>,
      <<c_APPEND, kB, vX \o vY>>,
      <<<<"a","p","p","e","n","d">>, kA, vEmpty>> }

\* STRLEN alone, or STRLEN and GET of the same key in one read
LenReads ==
    UNION { { <<RequestFrame(<<c_STRLEN, k>>)>>,
              <<RequestFrame(<<c_STRLEN, k>>), RequestFrame(<<c_GET, k>>)>> }
            : k \in {kA, kB} }

\* every stored string is shorter than MaxStrLen
LenFits ==
    \A d \in DOMAIN db : \A k \in DOMAIN db[d] : Len(db[d][k].s) < MaxStrLen

NextLen ==
    \/ Accept(1)
    \/ \E r \in LenWrites : Read(1, <<RequestFrame(r)>>)
    \/ \E r \in LenAppends : LenFits /\ Read(1, <<RequestFrame(r)>>)
    \/ \E batch \in LenReads : Read(1, batch)
    \/ ReadEof(1)
    \/ Write(1)

SpecLen == Init /\ [][NextLen]_vars

\* the DEL requests of SpecDel: one key, a repeated key, two keys
DelRequests ==
    { <<c_DEL, kA>>,
      <<c_DEL, kB>>,
      <<c_DEL, kA, kA>>,
      <<c_DEL, kA, kB>>,
      <<<<"d","e","l">>, kB, kA, kB>> }

DelWrites ==
    { <<c_SET, kA, vX>>,
      <<c_SET, kB, vY>>,
      <<c_MSET, kA, vY, kB, vX>>,
      <<c_SELECT, i1>> }

\* one request per read, or the same DEL twice in one read
DelBatches ==
    {<<RequestFrame(r)>> : r \in DelRequests \cup DelWrites}
        \cup {<<RequestFrame(r), RequestFrame(r)>> : r \in DelRequests}

NextDel ==
    \/ Accept(1)
    \/ \E batch \in DelBatches : Read(1, batch)
    \/ ReadEof(1)
    \/ Write(1)

SpecDel == Init /\ [][NextDel]_vars

c_KEYS == <<"K","E","Y","S">>
pStar == <<"*">>

\* the requests of SpecKeys: three keys, one of them the empty byte-string
KeysRequests ==
    { <<c_SET, kA, vX>>,
      <<c_SET, kB, vX>>,
      <<c_SET, vEmpty, vX>>,
      <<c_DEL, kA>>,
      <<c_DEL, vEmpty>>,
      <<c_SELECT, i1>>,
      <<c_KEYS, pStar>>,
      <<<<"k","e","y","s">>, kA>> }

NextKeys ==
    \/ Accept(1)
    \/ \E r \in KeysRequests : Read(1, <<RequestFrame(r)>>)
    \/ ReadEof(1)
    \/ Write(1)

SpecKeys == Init /\ [][NextKeys]_vars

\* patterns of literals, * and ?, and the inputs they are run on
WildPatterns == SeqsUpTo({"a", "b", "*", "?"}, MaxPat) \ {<<>>}
WildInputs == SeqsUpTo({"a", "b"}, MaxInput)

\* the bodies S of the classes [S] and [^S]: bytes and ranges
ClassBodies ==
    { <<"a">>, <<"a", "c">>, <<"a", "-", "c">>, <<"c", "-", "a">>,
      <<"b", "-", "b">>, <<"a", "-", "b", "d">>, <<"d", "b", "-", "c">> }
ClassPattern(S) == <<"[">> \o S \o <<"]">>
NegatedClassPattern(S) == <<"[", "^">> \o S \o <<"]">>
ClassPatterns ==
    {ClassPattern(S) : S \in ClassBodies}
        \cup {NegatedClassPattern(S) : S \in ClassBodies}
ClassInputs == {<<c>> : c \in {"a", "b", "c", "d", "-", "^"}}

\* what a pattern without wildcards is made of: a literal byte, the three
\* escapes of special bytes, and backslash before other bytes
EscapeItems ==
    { <<"a">>, <<"\\", "*">>, <<"\\", "?">>, <<"\\", "[">>,
      <<"\\", "a">>, <<"\\", "\\">> }

\* the concatenations of the sequences of q
RECURSIVE Concat(_)
Concat(q) == IF q = <<>> THEN <<>> ELSE Head(q) \o Concat(Tail(q))

EscapeItemSeqs == SeqsUpTo(EscapeItems, MaxItems) \ {<<>>}
EscapePatterns == {Concat(q) : q \in EscapeItemSeqs}

\* the bytes an item stands for
ItemLiteral(item) ==
    IF Len(item) = 2 /\ item[2] \in {"*", "?", "["} THEN <<item[2]>> ELSE item

EscapeInputs ==
    {Concat([i \in 1..Len(q) |-> ItemLiteral(q[i])]) : q \in EscapeItemSeqs}
        \cup {Concat(q) : q \in EscapeItemSeqs}

GlobCases ==
    (WildPatterns \X WildInputs)
        \cup (ClassPatterns \X ClassInputs)
        \cup (EscapePatterns \X EscapeInputs)

InitGlob ==
    /\ InitMain
    /\ InitCore
    /\ InitIdCallIdle
    /\ InitParserIdle
    /\ glob \in {[pattern |-> c[1], input |-> c[2], out |-> "none"] :
                    c \in GlobCases}

\* test::helper: Finder::new(pattern).do_match(input)
helper ==
    /\ glob.out = "none"
    /\ glob' = [glob EXCEPT
                   !.out = do_match(Finder_new(glob.pattern), glob.input,
                                    debug_assertions)]
    /\ UNCHANGED <<debug_assertions, db, cons, pc, con_id, results, pbuf,
                   ex_log, crashed, core, core_last, core_hi, parser, stream,
                   idcall, running, borrow,
                   pending>>

NextGlob == helper

SpecGlob == InitGlob /\ [][NextGlob]_vars

\* the bulk strings of the requests fed to the parser: empty, plain, and
\* holding the bytes the framing is made of
WireStrings ==
    { <<>>, <<"a">>, <<"a", "b">>, CRLF, <<"*">>, <<"$", "1">> }

WireRequests == SeqsUpTo(WireStrings, MaxElems)

RequestValue(req) == Value_Array([i \in 1..Len(req) |-> Value_BulkString(req[i])])

\* malformed input: an invalid character in a length, a length below -1, a
\* missing "\n" or "\r", an invalid data-type byte
MalformedWires ==
    { <<"*", "x">> \o CRLF,
      <<"*", "1">> \o CRLF \o <<"$", "x">> \o CRLF \o <<"a">> \o CRLF,
      <<"*", "-", "2">> \o CRLF,
      <<"*", "1">> \o CRLF \o <<"$", "-", "2">> \o CRLF,
      <<"*", "1", "\r", "$", "1">> \o CRLF \o <<"a">> \o CRLF,
      <<"*", "1">> \o CRLF \o <<"$", "1">> \o CRLF \o <<"a", "\r", "a">>,
      <<"*", "1", "\n", "$", "1", "\n", "a", "\n">>,
      <<"*", "1">> \o CRLF \o <<"$", "1">> \o CRLF \o <<"a", "\n", "\n">>,
      <<"*", "1">> \o CRLF \o <<"+", "O", "K">> \o CRLF,
      <<"*", "1">> \o CRLF \o <<":", "1">> \o CRLF }

\* input whose first byte is not "*": an inline command and the top-level
\* simple string, error, integer and bulk string
NonArrayWires ==
    { <<"P", "I", "N", "G">> \o CRLF,
      <<"+", "O", "K">> \o CRLF,
      <<"-", "E", "R", "R">> \o CRLF,
      <<":", "1">> \o CRLF,
      <<"$", "4">> \o CRLF \o <<"P", "I", "N", "G">> \o CRLF }

InitParser ==
    /\ InitMain
    /\ InitCore
    /\ InitIdCallIdle
    /\ InitGlobIdle
    /\ parser = Parser_new
    /\ stream \in
           {Stream("request", req, encode(RequestValue(req))) : req \in WireRequests}
               \cup {Stream("malformed", <<>>, w) : w \in MalformedWires}
               \cup {Stream("other", <<>>, w) : w \in NonArrayWires}

NextParser ==
    \/ \E n \in 1..Len(stream.wire) : Feed(n) /\ ParserIdle
    \/ CallParse /\ ParserIdle
    \/ CallPop /\ ParserIdle

SpecParser == InitParser /\ [][NextParser]_vars

c_CLIENT == <<"C","L","I","E","N","T">>
c_ID == <<"I","D">>
c_LIST == <<"L","I","S","T">>
c_COMMAND == <<"C","O","M","M","A","N","D">>
c_COUNT == <<"C","O","U","N","T">>
c_ACL == <<"A","C","L">>
c_CAT == <<"C","A","T">>
c_FUNCTION == <<"F","U","N","C","T","I","O","N">>
c_FLUSH == <<"F","L","U","S","H">>
c_CONFIG == <<"C","O","N","F","I","G">>

\* names that are in no table: mixed case, a known name with a suffix, bytes
\* that are not UTF-8, the empty name
UnknownRequests ==
    { <<<<"N","o","P","e">>>>,
      <<<<"g","e","t","x">>, kA>>,
      <<<<"c","l","i","e","n","t","s">>, n_id>>,
      <<<<BadByte>>>>,
      <<<<"G","E","T",BadByte>>, kA>>,
      <<<<>>, kA>> }

\* argument counts outside the range of the descriptor
ArityRequests ==
    { <<c_GET>>, <<c_GET, kA, kB>>, <<c_SET, kA>>, <<c_PING, kA, kB>>,
      <<c_DEL>>, <<c_MSET, kA>>, <<c_MSET, kA, vX, kB>>,
      <<c_MSETNX, kA, vX, kB>>, <<n_mget>>, <<n_incrbyfloat, kA>>,
      <<c_SELECT>>, <<c_SWAPDB, i0>>, <<n_flushall, kA>>,
      <<c_CLIENT>>, <<n_acl>>, <<c_CONFIG>>,
      <<c_CLIENT, n_id, kA>>, <<n_client, n_list, kA>>,
      <<c_COMMAND, n_count, kA>>, <<n_command, n_list, kA, kB, kA, kB>>,
      <<c_ACL, n_cat, kA, kB>>, <<c_FUNCTION, n_flush, kA, kB>>,
      <<n_config, n_get>> }

\* container commands in several spellings
ContainerRequests ==
    { <<n_client, n_id>>, <<c_CLIENT, c_ID>>,
      <<<<"C","l","i","e","n","t">>, <<"I","d">>>>, <<c_CLIENT, n_id>>,
      <<n_client, n_list>>, <<n_client, c_LIST>>,
      <<n_command, n_count>>, <<c_COMMAND, c_COUNT>>, <<n_command>>,
      <<n_command, n_list, kA>>,
      <<n_function, n_flush>>, <<c_FUNCTION, c_FLUSH>>,
      <<n_config, n_get, kA>>,
      <<n_client, <<BadByte>>>>, <<n_client, kA>> }

DispatchRequests ==
    UnknownRequests \cup ArityRequests \cup ContainerRequests
        \cup { <<c_SET, kA, vX>>, <<n_mget, kA, kB>>, <<c_SELECT, i1>> }

NextDispatch ==
    \/ Accept(1)
    \/ \E req \in DispatchRequests : Read(1, <<RequestFrame(req)>>)
    \/ ReadEof(1)
    \/ Write(1)

SpecDispatch == Init /\ [][NextDispatch]_vars

\* the requests of SpecClients: the listing, the id, and a SELECT
ClientRequests ==
    { <<n_client, n_list>>, <<c_CLIENT, n_list>>, <<n_client, n_id>>,
      <<c_SELECT, i1>> }

NextClients ==
    \E t \in Tasks :
        \/ Accept(t)
        \/ \E req \in ClientRequests : Read(t, <<RequestFrame(req)>>)
        \/ ReadEof(t)
        \/ Write(t)

SpecClients == Init /\ [][NextClients]_vars

\* the connection ids client_id is called on: zero, the ids up to i64::MAX,
\* and ids of one and of two u64 digits beyond
ConIds == 0..(2 * Pow2(I64Bits) + 1)

InitClientId ==
    /\ InitMain
    /\ InitCore
    /\ InitGlobIdle
    /\ InitParserIdle
    /\ idcall \in {[id |-> n, out |-> [t |-> "none"]] : n \in ConIds}

\* self.client_id(con_id) of handle_interrupt
CallClientId ==
    /\ idcall.out.t = "none"
    /\ idcall' = [idcall EXCEPT !.out = client_id(idcall.id)]
    /\ UNCHANGED <<debug_assertions, db, cons, pc, con_id, results, pbuf,
                   ex_log, crashed, core, core_last, core_hi, glob, parser,
                   stream, running, borrow, pending>>

NextClientId == CallClientId

SpecClientId == InitClientId /\ [][NextClientId]_vars

-----------------------------------------------------------------------------
(* The connection tasks on the LocalExecutor, step by step.  The executor  *)
(* polls one task at a time; a polled task runs until it reaches an await  *)
(* that is pending.  Every call of the wrapper borrows the RefCell, runs,  *)
(* and drops the RefMut.                                                   *)

\* a faulty schedule that may switch tasks at any point
is_await_any(label) == TRUE

\* the awaits of handle_stream: stream.read, and write_all and flush
is_await(label) == label \in {"read", "write"}

\* RefCell::borrow_mut for task t: BorrowMutError when it is borrowed
borrow_mut(b, t, op) ==
    IF b.holder # 0 THEN [b EXCEPT !.failed = TRUE]
    ELSE [holder |-> t, op |-> op, failed |-> FALSE]

\* drop of the RefMut
release(b) == [holder |-> 0, op |-> "none", failed |-> FALSE]

BorrowUnchanged ==
    UNCHANGED <<debug_assertions, pbuf, ex_log, core, core_last, core_hi, glob,
                parser, stream, idcall>>

Live == ~crashed /\ ~borrow.failed

\* executor.spawn(handle_stream(stream)) in the accept loop
Spawn(t) ==
    /\ Live /\ running = 0
    /\ pc[t] = "idle"
    /\ cons.next_id < MaxIds
    /\ pc' = [pc EXCEPT ![t] = "start"]
    /\ UNCHANGED <<db, cons, con_id, results, crashed, running, borrow, pending>>
    /\ BorrowUnchanged

\* the executor picks a spawned task and polls it
Poll(t) ==
    /\ Live /\ running = 0
    /\ pc[t] # "idle"
    /\ running' = t
    /\ UNCHANGED <<db, cons, pc, con_id, results, crashed, borrow, pending>>
    /\ BorrowUnchanged

\* the task is at an await that is pending: control returns to the executor
Yield(t) ==
    /\ Live /\ running = t
    /\ is_await(pc[t])
    /\ running' = 0
    /\ UNCHANGED <<db, cons, pc, con_id, results, crashed, borrow, pending>>
    /\ BorrowUnchanged

\* self.borrow_mut() of connect, execute (op, at `from`) or drop
Borrow(t, from, op, to) ==
    /\ Live /\ running = t
    /\ pc[t] = from
    /\ borrow' = borrow_mut(borrow, t, op)
    /\ pc' = [pc EXCEPT ![t] = IF borrow'.failed THEN from ELSE to]
    /\ UNCHANGED <<db, cons, con_id, results, crashed, running, pending>>
    /\ BorrowUnchanged

\* ControllerWrapper::connect
ConnectBorrow(t) == Borrow(t, "start", "connect", "connect")

\* .connect(addr) under the borrow; the RefMut is dropped with the statement
ConnectRun(t) ==
    /\ Live /\ running = t
    /\ pc[t] = "connect" /\ borrow.holder = t
    /\ LET r == Controller_connect(St, t)
       IN  /\ cons' = r.st.cons
           /\ con_id' = [con_id EXCEPT ![t] = r.id]
    /\ borrow' = release(borrow)
    /\ pc' = [pc EXCEPT ![t] = "read"]
    /\ UNCHANGED <<db, results, crashed, running, pending>>
    /\ BorrowUnchanged

\* read returned the bytes of a request
ReadSome(t, values) ==
    /\ Live /\ running = t
    /\ pc[t] = "read"
    /\ pending' = [pending EXCEPT ![t] = values]
    /\ pc' = [pc EXCEPT ![t] = "execute"]
    /\ UNCHANGED <<db, cons, con_id, results, crashed, running, borrow>>
    /\ BorrowUnchanged

\* Handle::execute
ExecuteBorrow(t) == Borrow(t, "execute", "execute", "executing")

\* .execute(input, con_id) of the next value under the borrow; a panic
\* unwinds through the executor, dropping the RefMut on the way.  The map
\* goes on with the next value, collect ends it after the last
ExecuteRun(t) ==
    /\ Live /\ running = t
    /\ pc[t] = "executing" /\ borrow.holder = t
    /\ \E r \in {Controller_execute(St, Head(pending[t]), con_id[t])} :
           /\ db' = r.db
           /\ cons' = r.cons
           /\ crashed' = (r.panic \/ r.hang)
           /\ results' = [results EXCEPT ![t] =
                             IF r.panic \/ r.hang THEN <<>>
                             ELSE Append(results[t], r.reply)]
    /\ pending' = [pending EXCEPT ![t] = Tail(pending[t])]
    /\ borrow' = release(borrow)
    /\ pc' = [pc EXCEPT ![t] =
                 IF Tail(pending[t]) = <<>> THEN "write" ELSE "execute"]
    /\ UNCHANGED <<con_id, running>>
    /\ BorrowUnchanged

\* write_all and flush of the next reply completed
WriteDone(t) ==
    /\ Live /\ running = t
    /\ pc[t] = "write"
    /\ results' = [results EXCEPT ![t] = Tail(results[t])]
    /\ pc' = [pc EXCEPT ![t] = IF Tail(results[t]) = <<>> THEN "read" ELSE "write"]
    /\ UNCHANGED <<db, cons, con_id, crashed, running, borrow, pending>>
    /\ BorrowUnchanged

\* read returned Ok(0) or Err: handle_stream returns
ReadEnd(t) ==
    /\ Live /\ running = t
    /\ pc[t] = "read"
    /\ pc' = [pc EXCEPT ![t] = "drop"]
    /\ UNCHANGED <<db, cons, con_id, results, crashed, running, borrow, pending>>
    /\ BorrowUnchanged

\* Drop for Handle
DropBorrow(t) == Borrow(t, "drop", "drop", "dropping")

\* .disconnect(con_id) under the borrow; the task is finished
DropRun(t) ==
    /\ Live /\ running = t
    /\ pc[t] = "dropping" /\ borrow.holder = t
    /\ cons' = Controller_disconnect(St, con_id[t]).cons
    /\ con_id' = [con_id EXCEPT ![t] = NoId]
    /\ borrow' = release(borrow)
    /\ pc' = [pc EXCEPT ![t] = "idle"]
    /\ running' = 0
    /\ UNCHANGED <<db, results, crashed, pending>>
    /\ BorrowUnchanged

\* the requests of SpecTasks; the empty one makes execute panic
TaskRequests ==
    { <<c_SET, kA, vX>>, <<c_GET, kA>>, <<n_client, n_list>>,
      <<c_SELECT, i1>>, <<>> }

\* the values parsed from one read: one request, or several in a pipeline
TaskBatches ==
    {<<r>> : r \in TaskRequests}
        \cup (SeqsUpTo({<<c_SET, kA, vX>>, <<c_GET, kA>>}, MaxBatch) \ {<<>>})

NextTasks ==
    \E t \in Tasks :
        \/ Spawn(t)
        \/ Poll(t)
        \/ Yield(t)
        \/ ConnectBorrow(t)
        \/ ConnectRun(t)
        \/ \E values \in TaskBatches : ReadSome(t, values)
        \/ ExecuteBorrow(t)
        \/ ExecuteRun(t)
        \/ WriteDone(t)
        \/ ReadEnd(t)
        \/ DropBorrow(t)
        \/ DropRun(t)

SpecTasks == Init /\ [][NextTasks]_vars

\* the requests of SpecCommands: the counts and listings of the command
\* table and of the ACL categories
CommandRequests ==
    { <<n_command, n_count>>, <<n_command, n_list>>, <<c_COMMAND, n_list>>,
      <<n_command, n_list, n_filterby, n_aclcat, AclCategory_Admin>>,
      <<n_command, n_list, <<"F","I","L","T","E","R","B","Y">>, n_pattern,
        pStar>>,
      <<n_command, n_list, n_filterby, n_pattern, n_get>>,
      <<n_command, n_list, n_filterby, n_module, kA>>,
      <<n_command, n_list, n_filterby, n_aclcat, kA>>,
      <<n_command, n_list, n_filterby, kA, kA>>,
      <<n_command, n_list, kA, n_aclcat, AclCategory_Read>>,
      <<n_acl, n_cat>>, <<c_ACL, n_cat>>,
      <<n_acl, n_cat, AclCategory_Scripting>>,
      <<n_acl, n_cat, <<"K","e","y","s","p","a","c","e">>>>,
      <<n_acl, n_cat, kA>>,
      <<c_SET, kA, vX>>, <<c_SELECT, i1>> }

NextCommands ==
    \/ Accept(1)
    \/ \E req \in CommandRequests : Read(1, <<RequestFrame(req)>>)
    \/ ReadEof(1)
    \/ Write(1)

SpecCommands == Init /\ [][NextCommands]_vars

\* the requests of SpecIso: commands on the selected Map, with the same
\* keys in both databases
IsoRequests ==
    { <<c_SET, kA, vX>>, <<c_MSET, kA, vY, kB, vY>>, <<c_MSETNX, kB, vX>>,
      <<c_APPEND, kA, vEmpty>>, <<c_INCRBY, kB, sMax>>, <<c_DECRBY, kB, sMax>>,
      <<c_DEL, kA, kB>>, <<c_FLUSHDB>>,
      <<c_GET, kA>>, <<n_mget, kA, kB>>, <<c_STRLEN, kA>>, <<n_exists, kA, kB>>,
      <<n_dbsize>>, <<c_KEYS, pStar>>,
      <<c_SELECT, i0>>, <<c_SELECT, i1>> }

NextIso ==
    \/ Accept(1)
    \/ \E req \in IsoRequests : Read(1, <<RequestFrame(req)>>)
    \/ ReadEof(1)
    \/ Write(1)

SpecIso == Init /\ [][NextIso]_vars

\* the requests of SpecFair: a key, KEYS with one star and with two, PING
FairRequests ==
    { <<c_SET, kB, vX>>, <<c_KEYS, pStar>>, <<c_KEYS, <<"*", "*">>>>,
      <<c_PING>> }

NextFair ==
    \E t \in Tasks :
        \/ Accept(t)
        \/ \E req \in FairRequests : Read(t, <<RequestFrame(req)>>)
        \/ ReadEof(t)
        \/ Write(t)

\* the executor is fair to a task whose write can proceed
SpecFair == Init /\ [][NextFair]_vars /\ \A t \in Tasks : WF_vars(Write(t))

-----------------------------------------------------------------------------
(* Properties.  ex_log holds, for each request the last step dispatched,   *)
(* the controller state before (db0, cons0) and after (db1, cons1) and the *)
(* reply.                                                                  *)

LogEntries == {ex_log[i] : i \in DOMAIN ex_log}

\* the command name of a logged request, folded as the dispatcher folds it
NameOf(e) ==
    IF e.input # <<>> /\ IsUtf8(e.input[1])
    THEN to_ascii_lowercase(e.input[1]) ELSE <<>>

\* the database index the connection had selected when e was dispatched
SelectedOf(e) == e.cons0.data[e.con].db

\* e is MSETNX k1 v1 ... kn vn, n >= 1
IsMsetnx(e) ==
    /\ NameOf(e) = n_msetnx
    /\ Len(e.input) >= 3
    /\ Len(e.input) % 2 = 1

\* the value the pairs of kv give to key k: that of its last pair
PairValue(kv, k) ==
    kv[1 + CHOOSE j \in 1..Len(kv) :
              /\ j % 2 = 1 /\ kv[j] = k
              /\ \A h \in (j + 1)..Len(kv) : ~(h % 2 = 1 /\ kv[h] = k)]

\* C1: MSETNX k1 v1 ... kn vn leaves the whole fleet unchanged and replies
\* Integer(0) if one of the keys exists in the selected database; otherwise
\* it stores every pair as a String (and nothing else) and replies Integer(1).
C1_MsetnxContract ==
    \A e \in LogEntries :
        IsMsetnx(e) =>
            LET sel == SelectedOf(e)
                kv == Tail(e.input)
                keys == PairKeys(kv)
            IN  IF \E k \in keys : k \in DOMAIN e.db0[sel]
                THEN /\ e.db1 = e.db0
                     /\ e.reply = to_bytes_vec(Integer(0))
                ELSE /\ DOMAIN e.db1[sel] = DOMAIN e.db0[sel] \cup keys
                     /\ \A k \in keys : e.db1[sel][k] = String(PairValue(kv, k))
                     /\ \A k \in DOMAIN e.db0[sel] : e.db1[sel][k] = e.db0[sel][k]
                     /\ \A x \in DOMAIN e.db0 : x # sel => e.db1[x] = e.db0[x]
                     /\ e.reply = to_bytes_vec(Integer(1))

\* C2: the replies of one batch are queued for the socket in the order in
\* which their requests arrived, protocol-error replies included.
C2_RepliesInRequestOrder ==
    \A t \in Tasks :
        \A i, j \in DOMAIN results[t] :
            i < j => results[t][i].frame < results[t][j].frame

\* C3: execute returns a reply for every request array and never panics,
\* an empty array and a non-UTF-8 command name included.
C3_ExecuteNeverPanics ==
    /\ ~crashed
    /\ \A e \in LogEntries : ~e.panic /\ e.reply # <<>>

\* C4: a protocol error in a batch produces exactly one error reply for the
\* offending frame, and no frame after it is parsed or executed: no reply of
\* the batch belongs to a later frame.
C4_BatchStopsAtProtocolError ==
    \A t \in Tasks :
        \A i, j \in DOMAIN results[t] :
            results[t][i].src = "error" =>
                /\ results[t][j].frame <= results[t][i].frame
                /\ (results[t][j].frame = results[t][i].frame => i = j)

\* C5: after a protocol error the connection is still registered, nothing
\* of the failed batch is left in the parser, and the frames that followed
\* the offending one were discarded, not dispatched.
C5_ProtocolErrorDiscardsTail ==
    \A t \in Tasks :
        \A i \in DOMAIN results[t] :
            results[t][i].src = "error" =>
                /\ pc[t] # "idle"
                /\ con_id[t] \in DOMAIN cons.data
                /\ pbuf[t] = <<>>
                /\ \A e \in LogEntries :
                       e.con = con_id[t] => e.frame < results[t][i].frame

\* the ids of the handlers that are alive
LiveIds == {con_id[t] : t \in {u \in Tasks : pc[u] # "idle"}}

\* C6: the store holds a ConnectionState exactly for the live handlers; the
\* id is in the store whenever one of its commands is dispatched; and the
\* step that ends a handler removes its id from the store.
C6_StateHeldWhileAlive ==
    /\ [](/\ DOMAIN cons.data = LiveIds
          /\ \A t \in Tasks : pc[t] = "idle" <=> con_id[t] = NoId
          /\ \A t, u \in Tasks :
                 t # u /\ pc[t] # "idle" /\ pc[u] # "idle"
                     => con_id[t] # con_id[u]
          /\ \A e \in LogEntries : e.con \in DOMAIN e.cons0.data)
    /\ [][\A t \in Tasks :
              pc[t] # "idle" /\ pc'[t] = "idle"
                  => con_id[t] \in DOMAIN cons.data
                     /\ con_id[t] \notin DOMAIN cons'.data]_vars

\* a command is dispatched on a live connection after another one has ended
C6_Witness ==
    /\ ex_log # <<>>
    /\ cons.next_id >= 2
    /\ Cardinality(DOMAIN cons.data) = 1
    /\ \E t \in Tasks : pc[t] = "idle"

\* C7: every successful connect returns an id strictly greater than every
\* id returned before it.
C7_IdsStrictlyIncrease ==
    core_last.op = "connect" /\ core_last.ok => core_last.id > core_hi

\* C8: a connect on the bounded store is refused only when every id of the
\* id space is held; the id of a successful connect was not held before and
\* is the one ConnectionState added; a refusal writes the "connection full"
\* error and leaves the store's connections as they were.
C8_BoundedConnect ==
    [][core_last'.op = "connect" =>
          IF core_last'.ok
          THEN /\ core_last'.id \in 0..(IdSpace - 1)
               /\ core_last'.id \notin DOMAIN core.data
               /\ DOMAIN core'.data = DOMAIN core.data \cup {core_last'.id}
               /\ \A x \in DOMAIN core.data : core'.data[x] = core.data[x]
               /\ core_last'.wrote = <<>>
          ELSE /\ DOMAIN core.data = 0..(IdSpace - 1)
               /\ core'.data = core.data
               /\ core_last'.wrote = ConnectionFull]_vars

\* a connect was refused
C8_Witness ==
    /\ core_last.op = "connect"
    /\ ~core_last.ok
    /\ core_last.wrote = ConnectionFull

\* e is SELECT n with n a decimal index not below the fleet size
IsSelectOutOfRange(e) ==
    /\ NameOf(e) = n_select
    /\ Len(e.input) = 2
    /\ parse_into_usize(e.input[2]).some
    /\ parse_into_usize(e.input[2]).v >= Cardinality(DOMAIN e.db0)

\* C9: every connection's selected index is below the fleet size; a SELECT
\* with an index >= the fleet size replies "ERR DB index is out of range" and
\* leaves the connections unchanged; every dispatch finds its Map.
C9_SelectedIndexInFleet ==
    /\ \A id \in DOMAIN cons.data :
           cons.data[id].db \in 0..(Cardinality(DOMAIN db) - 1)
    /\ \A e \in LogEntries :
           /\ e.con \in DOMAIN e.cons0.data => SelectedOf(e) \in DOMAIN e.db0
           /\ IsSelectOutOfRange(e) =>
                  /\ e.reply = <<"-", <<"ERR DB index is out of range">>, "\r\n">>
                  /\ e.cons1 = e.cons0
                  /\ e.db1 = e.db0

\* an out-of-range SELECT was answered on a connection that had selected 1
C9_Witness ==
    \E e \in LogEntries :
        /\ IsSelectOutOfRange(e)
        /\ SelectedOf(e) = 1
        /\ ~e.panic

\* e is SWAPDB a b with both a and b decimal indices inside the fleet
IsValidSwap(e) ==
    /\ NameOf(e) = n_swapdb
    /\ Len(e.input) = 3
    /\ parse_into_usize(e.input[2]).some
    /\ parse_into_usize(e.input[3]).some
    /\ parse_into_usize(e.input[2]).v \in DOMAIN e.db0
    /\ parse_into_usize(e.input[3]).v \in DOMAIN e.db0

SwapA(e) == parse_into_usize(e.input[2]).v
SwapB(e) == parse_into_usize(e.input[3]).v

\* the index under which the content of index x is found after swapping a, b
Swapped(x, a, b) == IF x = a THEN b ELSE IF x = b THEN a ELSE x

\* C11: a SWAPDB a b with valid indices replies +OK, exchanges the contents
\* found under a and b and leaves every other database and every selected
\* index unchanged, so that each connection that selected a reads what was
\* in b and vice versa; two consecutive SWAPDB a b restore the fleet and the
\* connections.
C11_SwapDbExchanges ==
    /\ \A e \in LogEntries :
           IsValidSwap(e) =>
               /\ e.reply = <<"+OK\r\n">>
               /\ e.cons1 = e.cons0
               /\ DOMAIN e.db1 = DOMAIN e.db0
               /\ \A x \in DOMAIN e.db0 :
                      e.db1[x] = e.db0[Swapped(x, SwapA(e), SwapB(e))]
               /\ \A id \in DOMAIN e.cons0.data :
                      e.db1[e.cons1.data[id].db]
                          = e.db0[Swapped(e.cons0.data[id].db, SwapA(e), SwapB(e))]
    /\ \A i \in 1..(Len(ex_log) - 1) :
           /\ IsValidSwap(ex_log[i]) /\ IsValidSwap(ex_log[i + 1])
           /\ SwapA(ex_log[i]) = SwapA(ex_log[i + 1])
           /\ SwapB(ex_log[i]) = SwapB(ex_log[i + 1])
           => /\ ex_log[i + 1].db1 = ex_log[i].db0
              /\ ex_log[i + 1].cons1 = ex_log[i].cons0

\* two consecutive SWAPDB of two databases with different contents, while
\* one of two connections has selected the second of them
C11_Witness ==
    /\ Len(ex_log) = 2
    /\ IsValidSwap(ex_log[1]) /\ IsValidSwap(ex_log[2])
    /\ SwapA(ex_log[1]) # SwapB(ex_log[1])
    /\ ex_log[1].db0[SwapA(ex_log[1])] # ex_log[1].db0[SwapB(ex_log[1])]
    /\ ex_log[1].db1 # ex_log[1].db0
    /\ Cardinality(DOMAIN cons.data) = 2
    /\ \E id \in DOMAIN cons.data : cons.data[id].db = SwapB(ex_log[1])

\* e is SET k v (options, if any, are ignored by the handler)
IsSet(e) == NameOf(e) = n_set /\ Len(e.input) \in 3..6

\* e is GET k
IsGet(e) == NameOf(e) = n_get /\ Len(e.input) = 2

\* the reply of GET k when the Map m is the selected database
GetReplyFrom(m, k) ==
    IF k \in DOMAIN m
    THEN <<"$", NatDigits(Len(m[k].s)), "\r\n", m[k].s, "\r\n">>
    ELSE <<"$-1\r\n">>

\* the SETs of key k among the first j - 1 requests of the step
EarlierSets(j, k) ==
    {i \in 1..(j - 1) : IsSet(ex_log[i]) /\ ex_log[i].input[2] = k}

\* C12: SET k v replies +OK, binds k to String(v) and changes no other key;
\* GET changes nothing and replies the value bound to k, or the null bulk
\* string if there is none; so within a sequence of SETs, GET k replies the
\* value of the most recent SET k, whatever was SET to other keys since.
C12_GetReturnsLastSet ==
    /\ \A e \in LogEntries :
           IsSet(e) =>
               /\ e.reply = <<"+OK\r\n">>
               /\ DOMAIN e.db1 = DOMAIN e.db0
               /\ DOMAIN e.db1[SelectedOf(e)]
                      = DOMAIN e.db0[SelectedOf(e)] \cup {e.input[2]}
               /\ e.db1[SelectedOf(e)][e.input[2]] = String(e.input[3])
               /\ \A k \in DOMAIN e.db0[SelectedOf(e)] :
                      k # e.input[2]
                          => e.db1[SelectedOf(e)][k] = e.db0[SelectedOf(e)][k]
               /\ \A x \in DOMAIN e.db0 :
                      x # SelectedOf(e) => e.db1[x] = e.db0[x]
    /\ \A e \in LogEntries :
           IsGet(e) =>
               /\ e.db1 = e.db0
               /\ e.reply = GetReplyFrom(e.db0[SelectedOf(e)], e.input[2])
    /\ \A j \in DOMAIN ex_log :
           IsGet(ex_log[j]) /\ (\A i \in 1..j : IsSet(ex_log[i]) \/ IsGet(ex_log[i])) =>
               LET k == ex_log[j].input[2]
                   sets == EarlierSets(j, k)
                   last == CHOOSE i \in sets : \A h \in sets : h <= i
               IN  IF sets # {}
                   THEN ex_log[j].reply
                            = <<"$", NatDigits(Len(ex_log[last].input[3])), "\r\n",
                                ex_log[last].input[3], "\r\n">>
                   ELSE ex_log[j].reply
                            = GetReplyFrom(ex_log[1].db0[SelectedOf(ex_log[1])], k)

\* SET k v over another value of k, a SET of another key, then GET k
C12_Witness ==
    /\ Len(ex_log) = 3
    /\ IsSet(ex_log[1]) /\ IsSet(ex_log[2]) /\ IsGet(ex_log[3])
    /\ ex_log[1].input[2] = ex_log[3].input[2]
    /\ ex_log[2].input[2] # ex_log[3].input[2]
    /\ ex_log[1].input[2] \in DOMAIN ex_log[1].db0[SelectedOf(ex_log[1])]
    /\ ex_log[1].db0[SelectedOf(ex_log[1])][ex_log[1].input[2]]
           # String(ex_log[1].input[3])
    /\ ex_log[3].reply # <<"$-1\r\n">>

\* e is INCR k, DECR k, INCRBY k n or DECRBY k n with n a decimal integer
IsIncrDecr(e) ==
    \/ NameOf(e) \in {n_incr, n_decr} /\ Len(e.input) = 2
    \/ /\ NameOf(e) \in {n_incrby, n_decrby}
       /\ Len(e.input) = 3
       /\ parse_into_i64(e.input[3]).some

\* what e asks to add to the integer
Delta(e) ==
    CASE NameOf(e) = n_incr -> 1
      [] NameOf(e) = n_decr -> 0 - 1
      [] NameOf(e) = n_incrby -> parse_into_i64(e.input[3]).v
      [] NameOf(e) = n_decrby -> 0 - parse_into_i64(e.input[3]).v

\* the key of e held a decimal signed integer when e was dispatched
HoldsInteger(e) ==
    /\ e.input[2] \in DOMAIN e.db0[SelectedOf(e)]
    /\ parse_into_i64(e.db0[SelectedOf(e)][e.input[2]].s).some

OldInteger(e) == parse_into_i64(e.db0[SelectedOf(e)][e.input[2]].s).v

\* C13: INCR, DECR, INCRBY and DECRBY on a key holding a decimal integer
\* reply Integer(old +/- n) and store its decimal representation exactly when
\* the result lies in [i64::MIN, i64::MAX]; otherwise they reply
\* "ERR integer overflow" and leave the fleet as it was.
C13_IncrDecrRange ==
    \A e \in LogEntries :
        IsIncrDecr(e) /\ HoldsInteger(e) =>
            LET new == OldInteger(e) + Delta(e)
                sel == SelectedOf(e)
            IN  IF new >= I64Min /\ new <= I64Max
                THEN /\ e.reply = <<":", to_string(new), "\r\n">>
                     /\ e.db1 = [e.db0 EXCEPT ![sel] =
                                     [e.db0[sel] EXCEPT ![e.input[2]] =
                                         String(to_string(new))]]
                ELSE /\ e.reply = <<"-", <<"ERR integer overflow">>, "\r\n">>
                     /\ e.db1 = e.db0

\* an increment whose result is exactly i64::MAX succeeded, and one past it
\* was refused before
C13_Witness ==
    \E e \in LogEntries :
        /\ IsIncrDecr(e) /\ HoldsInteger(e)
        /\ OldInteger(e) # I64Max
        /\ OldInteger(e) + Delta(e) = I64Max
        /\ e.db1[SelectedOf(e)][e.input[2]] = String(sMax)

\* an INCRBY whose result is past i64::MAX was refused
C13_OverflowSeen ==
    \E e \in LogEntries :
        /\ IsIncrDecr(e) /\ HoldsInteger(e)
        /\ OldInteger(e) + Delta(e) > I64Max
        /\ e.db1 = e.db0

\* C14: INCR k followed by DECR k, on a key holding a decimal integer and
\* with neither overflowing, leaves under k the very string that was there
\* before the INCR.
C14_IncrDecrRestores ==
    \A i \in 1..(Len(ex_log) - 1) :
        /\ NameOf(ex_log[i]) = n_incr /\ Len(ex_log[i].input) = 2
        /\ NameOf(ex_log[i + 1]) = n_decr /\ Len(ex_log[i + 1].input) = 2
        /\ ex_log[i].input[2] = ex_log[i + 1].input[2]
        /\ HoldsInteger(ex_log[i])
        /\ OldInteger(ex_log[i]) + 1 <= I64Max
        => /\ ~ex_log[i + 1].panic
           /\ ex_log[i + 1].db1[SelectedOf(ex_log[i])][ex_log[i].input[2]]
                  = ex_log[i].db0[SelectedOf(ex_log[i])][ex_log[i].input[2]]

\* e is STRLEN k
IsStrlen(e) == NameOf(e) = n_strlen /\ Len(e.input) = 2

\* the byte length of the string stored under the key of e, 0 when absent
StoredLen(e) ==
    IF e.input[2] \in DOMAIN e.db0[SelectedOf(e)]
    THEN Len(e.db0[SelectedOf(e)][e.input[2]].s) ELSE 0

\* C15: after any sequence of SET, MSET, APPEND, INCR/DECR, DEL and FLUSHDB,
\* STRLEN k replies the byte length of the string stored under k, which is
\* the length of what GET k returns, and 0 when k is absent.
C15_StrlenIsStoredLength ==
    /\ \A e \in LogEntries :
            IsStrlen(e) =>
                /\ e.reply = <<":", to_string(StoredLen(e)), "\r\n">>
                /\ e.db1 = e.db0
    /\ \A i \in 1..(Len(ex_log) - 1) :
            /\ IsStrlen(ex_log[i]) /\ IsGet(ex_log[i + 1])
            /\ ex_log[i].input[2] = ex_log[i + 1].input[2]
            => LET got == ex_log[i + 1].reply
               IN  IF Len(got) = 5
                   THEN ex_log[i].reply = <<":", to_string(Len(got[4])), "\r\n">>
                   ELSE /\ got = <<"$-1\r\n">>
                        /\ ex_log[i].reply = <<":", <<"0">>, "\r\n">>

\* STRLEN was asked of a key whose string APPEND had grown to MaxStrLen
\* bytes, and the GET that followed returned that string
C15_Witness ==
    \E i \in 1..(Len(ex_log) - 1) :
        /\ IsStrlen(ex_log[i]) /\ IsGet(ex_log[i + 1])
        /\ ex_log[i].input[2] = ex_log[i + 1].input[2]
        /\ StoredLen(ex_log[i]) = MaxStrLen
        /\ Len(ex_log[i + 1].reply) = 5

\* e is DEL k1 .. kn
IsDel(e) == NameOf(e) = n_del /\ Len(e.input) >= 2

\* the keys DEL was given
DelKeys(e) == {e.input[i] : i \in 2..Len(e.input)}

\* C16: DEL replies the number of keys it actually removed, a repeated key
\* counted once; afterwards none of its keys exists and every other key is
\* as before; and a DEL repeated right after itself replies 0.
C16_DelCountsRemoved ==
    /\ \A e \in LogEntries :
            IsDel(e) =>
                LET sel == SelectedOf(e)
                    m == e.db0[sel]
                    left == DOMAIN m \ DelKeys(e)
                IN  /\ e.reply = <<":",
                                   to_string(Cardinality(DOMAIN m \cap DelKeys(e))),
                                   "\r\n">>
                    /\ e.db1 = [e.db0 EXCEPT ![sel] = [k \in left |-> m[k]]]
    /\ \A i \in 1..(Len(ex_log) - 1) :
            /\ IsDel(ex_log[i]) /\ IsDel(ex_log[i + 1])
            /\ DelKeys(ex_log[i + 1]) \subseteq DelKeys(ex_log[i])
            => ex_log[i + 1].reply = <<":", <<"0">>, "\r\n">>

\* DEL named a live key twice and was repeated right after
C16_Witness ==
    \E i \in 1..(Len(ex_log) - 1) :
        /\ IsDel(ex_log[i]) /\ IsDel(ex_log[i + 1])
        /\ ex_log[i].input = ex_log[i + 1].input
        /\ Len(ex_log[i].input) = 3
        /\ ex_log[i].input[2] = ex_log[i].input[3]
        /\ ex_log[i].input[2] \in DOMAIN ex_log[i].db0[SelectedOf(ex_log[i])]
        /\ DOMAIN ex_log[i].db0[SelectedOf(ex_log[i])] = {kA, kB}

\* e is KEYS *
IsKeysStar(e) == NameOf(e) = n_keys /\ Len(e.input) = 2 /\ e.input[2] = pStar

\* the replies that list every key of S exactly once, in some order
KeyListings(S) ==
    { to_bytes_vec(Array([i \in 1..Cardinality(S) |-> BulkString(order[i])])) :
        order \in { f \in [1..Cardinality(S) -> S] :
                        \A i, j \in 1..Cardinality(S) : f[i] = f[j] => i = j } }

\* C17: KEYS * returns every live key of the selected database exactly once,
\* the empty key included, and no other key.
C17_KeysStarListsLiveKeys ==
    \A e \in LogEntries :
        IsKeysStar(e) =>
            /\ ~e.panic /\ ~e.hang
            /\ e.reply \in KeyListings(DOMAIN e.db0[SelectedOf(e)])

\* what does hold: a build without debug assertions lists the live keys, and
\* a build with them does so as long as the empty key is not live
C17_KeysStarWithoutEmptyKey ==
    \A e \in LogEntries :
        IsKeysStar(e)
            /\ (debug_assertions => vEmpty \notin DOMAIN e.db0[SelectedOf(e)]) =>
            /\ ~e.panic /\ ~e.hang
            /\ e.reply \in KeyListings(DOMAIN e.db0[SelectedOf(e)])

\* whether the whole of s matches the pattern p of literals, * and ?
RECURSIVE GlobMatches(_, _)
GlobMatches(p, s) ==
    IF p = <<>> THEN s = <<>>
    ELSE IF Head(p) = "*"
    THEN GlobMatches(Tail(p), s) \/ (s # <<>> /\ GlobMatches(p, Tail(s)))
    ELSE /\ s # <<>>
         /\ Head(p) = "?" \/ Head(p) = Head(s)
         /\ GlobMatches(Tail(p), Tail(s))

\* the matcher was called on a pattern of literals, * and ? and a non-empty
\* input
WildCall ==
    /\ glob.out # "none"
    /\ glob.pattern \in WildPatterns
    /\ glob.input \in WildInputs \ {<<>>}

\* C18: for a pattern of literals, * and ? and a non-empty input the matcher
\* returns true exactly when the whole input matches the pattern.
C18_WildcardsMatchWholeInput ==
    WildCall => glob.out = Outcome(GlobMatches(glob.pattern, glob.input))

\* what does hold: a literal pattern, *, a literal followed by *, and a
\* literal between two * are decided as the pattern says
C18_PrefixAndNeedle ==
    (/\ WildCall
     /\ \E v \in SeqsUpTo({"a", "b"}, MaxPat) \ {<<>>} :
            glob.pattern \in {v, <<"*">>, v \o <<"*">>, <<"*">> \o v \o <<"*">>})
        => glob.out = Outcome(GlobMatches(glob.pattern, glob.input))

\* the bytes from lo to hi, whichever of the two is the smaller
ByteRange(lo, hi) ==
    {Ascii[i] : i \in {j \in 1..Len(Ascii) :
                          \/ Ord(lo) <= j /\ j <= Ord(hi)
                          \/ Ord(hi) <= j /\ j <= Ord(lo)}}

\* the set of bytes the class body S denotes
RECURSIVE ClassSet(_)
ClassSet(S) ==
    IF S = <<>> THEN {}
    ELSE IF Len(S) >= 3 /\ S[2] = "-"
    THEN ByteRange(S[1], S[3]) \cup ClassSet(SubSeq(S, 4, Len(S)))
    ELSE {S[1]} \cup ClassSet(Tail(S))

\* C19: [S] matches a byte exactly when the byte is in S, [^S] exactly when
\* it is not, so that exactly one of the two matches each byte.
C19_ClassAndNegatedClass ==
    \A S \in ClassBodies :
        glob.out # "none" /\ glob.input \in ClassInputs =>
            /\ glob.pattern = ClassPattern(S) =>
                   /\ glob.out = Outcome(glob.input[1] \in ClassSet(S))
                   /\ do_match(Finder_new(NegatedClassPattern(S)), glob.input,
                               debug_assertions)
                          = Outcome(glob.input[1] \notin ClassSet(S))
            /\ glob.pattern = NegatedClassPattern(S) =>
                   glob.out = Outcome(glob.input[1] \notin ClassSet(S))

\* what does hold: [S] returns true on a byte of S
C19_ClassAcceptsMembers ==
    \A S \in ClassBodies :
        /\ glob.out # "none" /\ glob.input \in ClassInputs
        /\ glob.pattern = ClassPattern(S)
        /\ glob.input[1] \in ClassSet(S)
        => glob.out = "true"

\* the bytes a pattern of literals and escapes stands for: backslash before
\* *, ? or [ gives that byte, backslash before another byte gives both
RECURSIVE EscapedLiteral(_)
EscapedLiteral(p) ==
    IF p = <<>> THEN <<>>
    ELSE IF Head(p) = "\\" /\ Len(p) >= 2
    THEN (IF p[2] \in {"*", "?", "["} THEN <<p[2]>> ELSE <<"\\", p[2]>>)
             \o EscapedLiteral(SubSeq(p, 3, Len(p)))
    ELSE <<Head(p)>> \o EscapedLiteral(Tail(p))

\* the matcher was called on a pattern of literals and escapes and a
\* non-empty input
EscapeCall ==
    /\ glob.out # "none"
    /\ glob.pattern \in EscapePatterns
    /\ glob.input \in EscapeInputs

Yielded == stream.popped \o parser.value_buffer

\* the input was delivered whole, as one piece, and parse was called
WholeParsed == stream.pieces = 1 /\ stream.wire = <<>> /\ stream.parsed

\* C21: the RESP2 encoding of a request, fed at once and parsed, yields
\* exactly that request and leaves the byte buffer empty.
C21_ParseInvertsEncode ==
    /\ stream.kind = "request" /\ WholeParsed
        => /\ stream.status = "ok"
           /\ Yielded = <<RequestValue(stream.req)>>
           /\ parser.bytes_buffer = <<>>

\* a request of an empty bulk string and one holding "\r\n" was fed at
\* once, parsed and popped
C21_Witness ==
    /\ stream.kind = "request" /\ WholeParsed
    /\ stream.req = <<<<>>, CRLF>>
    /\ stream.popped = <<RequestValue(stream.req)>>

\* C22: with the encoding of a request delivered in pieces and parse called
\* after each, no call crashes or hangs, no call before the final byte
\* yields a request, and the call after the final byte yields the request.
C22_ChunkingIndependent ==
    stream.kind = "request" =>
        /\ stream.status = "ok"
        /\ stream.wire # <<>> => Yielded = <<>>
        /\ stream.wire = <<>> /\ stream.parsed =>
               Yielded = <<RequestValue(stream.req)>>

\* C23: malformed input, fed at once and parsed, ends in a report and not in
\* a crash or a hang.
C23_MalformedIsReported ==
    stream.kind = "malformed" /\ WholeParsed
        => stream.status = "ok"

\* C24: input whose first byte is not "*" is refused without a request being
\* yielded, and the parser keeps running.
C24_NonArrayIsRefused ==
    stream.kind = "other" /\ stream.parsed
        => stream.status = "ok" /\ Yielded = <<>>

\* e is a SELECT that was answered +OK
IsSuccessfulSelect(e) ==
    /\ NameOf(e) = n_select
    /\ e.reply = <<"+OK\r\n">>

\* C10: a connection starts with database 0 selected, and its selection
\* changes only in a step that dispatches a successful SELECT of that same
\* connection; every other dispatched command leaves all selections alone.
C10_SelectionChangedOnlyBySelect ==
    [][/\ \A id \in DOMAIN cons'.data :
              IF id \notin DOMAIN cons.data
              THEN cons'.data[id].db = 0
              ELSE cons'.data[id].db # cons.data[id].db =>
                       \E i \in DOMAIN ex_log' :
                           /\ ex_log'[i].con = id
                           /\ IsSuccessfulSelect(ex_log'[i])
       /\ \A i \in DOMAIN ex_log' :
              \A id \in DOMAIN ex_log'[i].cons0.data :
                  id # ex_log'[i].con \/ ~IsSuccessfulSelect(ex_log'[i])
                      => /\ id \in DOMAIN ex_log'[i].cons1.data
                         /\ ex_log'[i].cons1.data[id].db
                                = ex_log'[i].cons0.data[id].db]_vars

\* a SWAPDB was carried out while another connection had selected 1
C10_Witness ==
    \E e \in LogEntries :
        /\ NameOf(e) = n_swapdb
        /\ e.reply = <<"+OK\r\n">>
        /\ \E id \in DOMAIN cons.data : id # e.con /\ cons.data[id].db = 1

\* the name of e is in none of the three tables
IsMiss(e) ==
    /\ e.input # <<>>
    /\ \/ ~IsUtf8(e.input[1])
       \/ to_ascii_lowercase(e.input[1]) \notin
              simple_commands \cup container_commands \cup controller_commands

\* C25: a request whose name is in no table, or is not UTF-8, is answered
\* with -ERR unknown command '<name>' (the name as it was sent) and changes
\* neither the databases nor the connection store.
C25_MissIsUnknownCommand ==
    \A e \in LogEntries :
        IsMiss(e) =>
            /\ ~e.panic /\ ~e.hang
            /\ e.reply = <<"-", <<"ERR unknown command '", e.input[1], "'">>,
                           "\r\n">>
            /\ e.db1 = e.db0
            /\ e.cons1 = e.cons0

\* a name in mixed case missed while the selected database held a key
C25_Witness ==
    \E e \in LogEntries :
        /\ e.input = <<<<"N","o","P","e">>>>
        /\ SelectedOf(e) = 1
        /\ e.db0[0] # EmptyMap
        /\ e.reply = <<"-", <<"ERR unknown command '", e.input[1], "'">>,
                       "\r\n">>

\* the descriptor of the command or subcommand e invokes, and the name the
\* dispatcher knows it by
Invoked(e) ==
    LET name == NameOf(e)
        args == Tail(e.input)
    IN  IF name \in simple_commands
        THEN [name |-> name, arity |-> SimpleArity(name), args |-> args,
              pairs |-> name \in {n_mset, n_msetnx}]
        ELSE IF name \in controller_commands
        THEN [name |-> name, arity |-> ControllerArity(name), args |-> args,
              pairs |-> FALSE]
        ELSE IF args # <<>> /\ IsUtf8(args[1])
                /\ to_ascii_lowercase(args[1]) \in subcommands(name)
        THEN [name |-> SubName(name, to_ascii_lowercase(args[1])),
              arity |-> SubArity(name, to_ascii_lowercase(args[1])),
              args |-> Tail(args), pairs |-> FALSE]
        ELSE [name |-> name,
              arity |-> IF has_handler(name) THEN Arity(0, None)
                        ELSE Arity(1, None),
              args |-> args, pairs |-> FALSE]

\* the argument count of e is outside the range of its descriptor, or odd
\* for a command that takes pairs
IsArityViolation(e) ==
    /\ e.input # <<>>
    /\ ~IsMiss(e)
    /\ \/ ~is_arity_correct(Invoked(e).arity, Len(Invoked(e).args))
       \/ Invoked(e).pairs /\ Len(Invoked(e).args) % 2 # 0

\* C26: a request whose argument count is outside the range of its
\* descriptor, MSET and MSETNX with an odd count included, is answered with
\* -ERR wrong number of arguments for '<name>', <name> being the invoked
\* command or `<cmd> <sub>`, and changes no state.
C26_ArityErrorNamesTheCommand ==
    \A e \in LogEntries :
        IsArityViolation(e) =>
            /\ e.reply = <<"-", <<"ERR wrong number of arguments for '",
                                  Invoked(e).name, "'">>, "\r\n">>
            /\ e.db1 = e.db0
            /\ e.cons1 = e.cons0

\* e is CLIENT ID in some spelling
IsClientId(e) ==
    /\ Len(e.input) = 2
    /\ IsUtf8(e.input[1]) /\ IsUtf8(e.input[2])
    /\ to_ascii_lowercase(e.input[1]) = n_client
    /\ to_ascii_lowercase(e.input[2]) = n_id

\* C27: the subcommand name is matched without regard to case: CLIENT ID in
\* every spelling is answered as `client id` is, with the id of the issuer.
C27_SubcommandCaseInsensitive ==
    \A e \in LogEntries :
        IsClientId(e) =>
            e.reply = Handle_execute([db |-> e.db0, cons |-> e.cons0], e.con,
                                     <<n_client, n_id>>).reply

\* e is CLIENT LIST with the subcommand in lower case
IsClientList(e) ==
    /\ NameOf(e) = n_client
    /\ Tail(e.input) = <<n_list>>

\* the handlers that have connected and not yet returned
LiveTasks == {t \in Tasks : pc[t] # "idle"}

\* one line per task of ts, by ascending connection id
RECURSIVE LinesOf(_)
LinesOf(ts) ==
    IF ts = {} THEN <<>>
    ELSE LET t == CHOOSE x \in ts : \A y \in ts : con_id[x] <= con_id[y]
         IN  <<"i","d","=">> \o to_string(con_id[t])
                 \o <<" ","a","d","d","r","=">> \o to_string(t) \o <<":">>
                 \o to_string(t) \o <<"\n">> \o LinesOf(ts \ {t})

C29_ClientIdSaturates ==
    idcall.out.t # "none" =>
        idcall.out = Integer(IF idcall.id <= I64Max THEN idcall.id
                             ELSE I64Max)

\* C30: the borrow of the controller never fails; while a connect, an
\* execute or a disconnect holds it, its task is the one the executor runs,
\* and no step of that time moves another connection.
C30_ExecutionIsAtomic ==
    /\ [](~borrow.failed)
    /\ [](borrow.holder # 0 => running = borrow.holder)
    /\ [][borrow.holder # 0 =>
              \A u \in Tasks \ {borrow.holder} :
                  /\ pc'[u] = pc[u]
                  /\ con_id'[u] = con_id[u]
                  /\ results'[u] = results[u]]_vars

\* a request is being executed while the other connection has a reply of
\* its own still to write
C30_Witness ==
    /\ borrow.holder = 1 /\ borrow.op = "execute"
    /\ pc[2] = "write" /\ results[2] # <<>>
    /\ db[0] # EmptyMap

\* C31: under a fair scheduler every execution returns control, so the
\* replies a connection has pending are eventually all written.
C31_RepliesEventuallyWritten ==
    \A t \in Tasks : (results[t] # <<>>) ~> (results[t] = <<>>)

\* e is COMMAND COUNT
IsCommandCount(e) ==
    NameOf(e) = n_command /\ Tail(e.input) = <<n_count>>

\* C32: COMMAND COUNT replies the number of entries that COMMAND LIST
\* without a filter returns in the same state.
C32_CountIsLengthOfList ==
    \A e \in LogEntries :
        IsCommandCount(e) =>
            LET list == Handle_execute([db |-> e.db0, cons |-> e.cons0],
                                       e.con, <<n_command, n_list>>).reply
            IN  /\ list[1] = "*"
                /\ e.reply = <<":", list[2], "\r\n">>

\* e is ACL CAT without a category
IsAclCat(e) == NameOf(e) = n_acl /\ Tail(e.input) = <<n_cat>>

\* C33: ACL CAT without an argument replies the names of all categories,
\* each once, in ascending order.
C33_AclCatIsSorted ==
    \A e \in LogEntries :
        IsAclCat(e) =>
            e.reply = to_bytes_vec(Array(BulkStrings(sort_unstable(
                          { AclCategory_Admin, AclCategory_Connection,
                            AclCategory_Dangerous, AclCategory_Fast,
                            AclCategory_Keyspace, AclCategory_Read,
                            AclCategory_Scripting, AclCategory_Slow,
                            AclCategory_String, AclCategory_Write }))))

\* the pattern with every run of stars replaced by one star
RECURSIVE CollapseStars(_)
CollapseStars(p) ==
    IF Len(p) <= 1 THEN p
    ELSE IF p[1] = "*" /\ p[2] = "*" THEN CollapseStars(Tail(p))
    ELSE <<p[1]>> \o CollapseStars(Tail(p))

\* C34: the compiled nodes of a pattern hold no two adjacent Star and no two
\* adjacent Chars, and a pattern with consecutive stars compiles and is
\* matched as the pattern with a single star in that place.
C34_StarsCollapse ==
    WildCall =>
        LET c == compile_pattern(glob.pattern)
        IN  /\ c.r = "nodes"
            /\ \A i \in 1..(Len(c.nodes) - 1) :
                   /\ ~(c.nodes[i].k = "Star" /\ c.nodes[i + 1].k = "Star")
                   /\ ~(c.nodes[i].k = "Chars" /\ c.nodes[i + 1].k = "Chars")
            /\ glob.out = do_match(Finder_new(CollapseStars(glob.pattern)),
                                   glob.input, debug_assertions)

\* the number of question marks of p
Questions(p) == Cardinality({i \in 1..Len(p) : p[i] = "?"})

\* C35: a pattern of question marks and single stars only, with q question
\* marks, matches exactly the inputs of length >= q when it has a star and
\* exactly those of length q when it has none.
C35_QuestionsAndStarsCountLength ==
    (/\ WildCall
     /\ \A i \in 1..Len(glob.pattern) : glob.pattern[i] \in {"?", "*"}
     /\ CollapseStars(glob.pattern) = glob.pattern)
        => glob.out =
               Outcome(IF \E i \in 1..Len(glob.pattern) : glob.pattern[i] = "*"
                       THEN Len(glob.input) >= Questions(glob.pattern)
                       ELSE Len(glob.input) = Questions(glob.pattern))

\* C36: for every pattern and every non-empty input the matcher returns
\* true or false: it neither panics nor runs for ever.
C36_MatcherTerminates ==
    glob.out # "none" /\ glob.input # <<>> => glob.out \in {"true", "false"}

\* C37: an INCR, DECR, INCRBY or DECRBY that is answered with an error
\* leaves every database as it was: no value is changed, no key is created.
C37_FailedIncrDecrChangesNothing ==
    \A e \in LogEntries :
        (/\ NameOf(e) \in {n_incr, n_decr, n_incrby, n_decrby}
         /\ ~e.panic /\ ~e.hang
         /\ e.reply[1] = "-")
            => e.db1 = e.db0

\* the fleet d with every database but i emptied
OnlyDatabase(d, i) == [j \in DOMAIN d |-> IF j = i THEN d[j] ELSE EmptyMap]

\* C38: a command on the selected Map, issued with database i selected,
\* changes no database j # i, and its reply and its effect on database i are
\* those it has when all other databases are empty.
C38_DatabasesAreIsolated ==
    \A e \in LogEntries :
        (NameOf(e) \in simple_commands /\ ~e.panic /\ ~e.hang) =>
            LET i == SelectedOf(e)
                alone == Handle_execute([db |-> OnlyDatabase(e.db0, i),
                                         cons |-> e.cons0], e.con, e.input)
            IN  /\ \A j \in DOMAIN e.db0 \ {i} : e.db1[j] = e.db0[j]
                /\ e.reply = alone.reply
                /\ e.db1[i] = alone.db[i]

\* database 1 was flushed while it was selected and database 0 held keys
\* that it kept
C38_Witness ==
    \E e \in LogEntries :
        /\ NameOf(e) = n_flushdb
        /\ SelectedOf(e) = 1
        /\ e.db0[1] # EmptyMap /\ e.db1[1] = EmptyMap
        /\ e.db0[0] # EmptyMap /\ e.db1[0] = e.db0[0]

\* task t is between the return of a read and the end of the map over the
\* values parsed from it
InBatch(t) == pc[t] \in {"execute", "executing"}

\* C39: from the read that delivered them until the last of them has been
\* executed, the requests of one read are executed by their task alone: the
\* executor polls no other task, no other task moves, nothing connects or
\* disconnects, and none of the replies is written.
C39_BatchRunsBackToBack ==
    /\ [](\A t \in Tasks : InBatch(t) => running = t /\ pending[t] # <<>>)
    /\ [](\A t \in Tasks : pc[t] = "write" /\ ~crashed => pending[t] = <<>>)
    /\ [][\A t \in Tasks : InBatch(t) =>
              /\ running' = t
              /\ \A u \in Tasks \ {t} :
                     /\ pc'[u] = pc[u]
                     /\ con_id'[u] = con_id[u]
                     /\ results'[u] = results[u]
              /\ DOMAIN cons'.data = DOMAIN cons.data
              /\ Len(results'[t]) >= Len(results[t]) \/ crashed']_vars

\* task 1 has executed the first request of a read of two and is about to
\* execute the second, while task 2 is connected and waits for input
C39_Witness ==
    /\ pc[1] = "execute"
    /\ Len(results[1]) = 1 /\ Len(pending[1]) = 1
    /\ pc[2] = "read"

\* e is a SWAPDB whose two arguments are indices
IsSwapOfIndices(e) ==
    /\ NameOf(e) = n_swapdb
    /\ Len(e.input) = 3
    /\ ~e.panic /\ ~e.hang
    /\ parse_into_usize(e.input[2]).some
    /\ parse_into_usize(e.input[3]).some

\* C40: a SWAPDB with an index that is not below the number of databases
\* changes nothing and replies with an error: that of the first index when
\* the first is out of range, whatever the second is, and that of the second
\* index when only the second is out of range.
C40_SwapDbOutOfRange ==
    \A e \in LogEntries :
        IsSwapOfIndices(e) =>
            LET n == Cardinality(DOMAIN e.db0)
            IN  /\ SwapA(e) >= n =>
                       /\ e.reply = <<"-", <<"ERR first DB index is out of range">>,
                                      "\r\n">>
                       /\ e.db1 = e.db0 /\ e.cons1 = e.cons0
                /\ SwapA(e) < n /\ SwapB(e) >= n =>
                       /\ e.reply = <<"-", <<"ERR second DB index is out of range">>,
                                      "\r\n">>
                       /\ e.db1 = e.db0 /\ e.cons1 = e.cons0

\* a SWAPDB with both indices out of range on databases of different
\* contents, one of them selected by a second connection
C40_Witness ==
    \E e \in LogEntries :
        /\ IsSwapOfIndices(e)
        /\ SwapA(e) >= Cardinality(DOMAIN e.db0)
        /\ SwapB(e) >= Cardinality(DOMAIN e.db0)
        /\ e.db0[0] # e.db0[1]
        /\ Cardinality(DOMAIN e.cons0.data) = 2

====
